---- MODULE Spec2Model ----
(***************************************************************************)
(* The in-memory BM25 keyword index of the retrieval backend               *)
(* (backend/app/utils/bm25_index.py): the process-wide registry            *)
(* BM25Index._indexes, and build_index, search, get_index_stats,           *)
(* delete_index and cleanup_old_indexes running on threads that interleave *)
(* at the granularity of one access to the registry; the hybrid search of  *)
(* backend/app/utils/hybrid_search.py over that index and the vector       *)
(* store (backend/app/utils/pinecone_storage.py), fused by reciprocal      *)
(* rank; and the two chunkers, backend/app/utils/text_chunker.py and       *)
(* backend/app/utils/semantic_chunker.py, as operators on character        *)
(* sequences.                                                              *)
(***************************************************************************)
EXTENDS Integers, Sequences, FiniteSets, TLC

\* ------------------------------------------------------------------ bounds

\* The clock counts whole hours and stops at MaxTime.
MaxTime == 1
\* search is called with top_k in 0..MaxTopK; where calls interleave, with
\* top_k = RaceTopK.
MaxTopK == 3
RaceTopK == 2
\* cleanup_old_indexes is called with max_age_hours in 0..MaxAge; where calls
\* interleave, with max_age_hours = RaceMaxAge.
MaxAge == 1
RaceMaxAge == 0
\* A caller that kept the list it passed to build_index grows it to at most
\* MaxListLen chunks.
MaxListLen == 3

Threads == {"t1", "t2"}
Sessions == {"A", "B"}
\* The session of the three-sentence scenario.
ScenarioSession == "s1"

\* ------------------------------------------------------------- characters

\* Texts are sequences of one-character strings.
UpperCase == {"C", "D"}
LowerOf == [c \in UpperCase |-> IF c = "C" THEN "c" ELSE "d"]
WordChars ==
    {"a", "c", "d", "e", "g", "h", "i", "k",
     "m", "n", "o", "p", "r", "s", "t", "z"}
SpaceChars == {" "}

\* str.lower() on one character.
LowerChar(c) == IF c \in UpperCase THEN LowerOf[c] ELSE c

\* re.sub(r'[^\w\s]', ' ', .) on one (lowercased) character.
StripChar(c) == IF c \in WordChars \cup SpaceChars THEN c ELSE " "

RECURSIVE SplitFrom(_, _, _, _)
\* text.split(): the maximal runs of non-space characters of txt from
\* position i on, cur being the run read so far and acc the runs closed.
SplitFrom(txt, i, cur, acc) ==
    IF i > Len(txt)
    THEN IF cur = <<>> THEN acc ELSE Append(acc, cur)
    ELSE IF txt[i] \in SpaceChars
         THEN SplitFrom(txt, i + 1, <<>>,
                        IF cur = <<>> THEN acc ELSE Append(acc, cur))
         ELSE SplitFrom(txt, i + 1, Append(cur, txt[i]), acc)

\* A tokenizer that stems: a plural is read as its singular.
WordStemmed(run) ==
    CASE run = <<"c", "a", "t">> \/ run = <<"c", "a", "t", "s">> -> "cat"
      [] run = <<"d", "o", "g">> \/ run = <<"d", "o", "g", "s">> -> "dog"
      [] run = <<"p", "e", "t", "s">> -> "pet"
      [] run = <<"z", "o", "o">> -> "zoo"
      [] run = <<"t", "h", "e">> -> "the"
      [] run = <<"s", "a", "t">> -> "sat"
      [] run = <<"o", "n">> -> "on"
      [] run = <<"m", "a", "t">> -> "mat"
      [] run = <<"a">> -> "a"
      [] run = <<"r", "a", "n">> -> "ran"
      [] run = <<"i", "n">> -> "in"
      [] run = <<"p", "a", "r", "k">> -> "park"
      [] run = <<"a", "n", "d">> -> "and"
      [] run = <<"a", "r", "e">> -> "are"

\* The string a run of characters spells; the texts and queries of the model
\* spell no other words.
Word(run) ==
    CASE run = <<"c", "a", "t">> -> "cat"
      [] run = <<"d", "o", "g">> -> "dog"
      [] run = <<"z", "o", "o">> -> "zoo"
      [] run = <<"t", "h", "e">> -> "the"
      [] run = <<"s", "a", "t">> -> "sat"
      [] run = <<"o", "n">> -> "on"
      [] run = <<"m", "a", "t">> -> "mat"
      [] run = <<"a">> -> "a"
      [] run = <<"r", "a", "n">> -> "ran"
      [] run = <<"i", "n">> -> "in"
      [] run = <<"p", "a", "r", "k">> -> "park"
      [] run = <<"c", "a", "t", "s">> -> "cats"
      [] run = <<"a", "n", "d">> -> "and"
      [] run = <<"d", "o", "g", "s">> -> "dogs"
      [] run = <<"a", "r", "e">> -> "are"
      [] run = <<"p", "e", "t", "s">> -> "pets"

\* ------------------------------------------------------------------ chunks

Chunk(d, c, s, t) == [doc_id |-> d, chunk_id |-> c, session_id |-> s, text |-> t]

TxtCatDog == <<"C", "a", "t", " ", "d", "o", "g">>
TxtCatDot == <<"c", "a", "t", ".">>
TxtDogDog == <<"d", "o", "g", ",", " ", "d", "o", "g">>
TxtDog == <<"d", "o", "g">>
TxtDogUp == <<"D", "o", "g">>
TxtPunct == <<"?", "!">>
TxtCatSat ==
    <<"t", "h", "e", " ", "c", "a", "t", " ", "s", "a", "t", " ", "o", "n",
      " ", "t", "h", "e", " ", "m", "a", "t">>
TxtDogRan ==
    <<"a", " ", "d", "o", "g", " ", "r", "a", "n", " ", "i", "n", " ", "t",
      "h", "e", " ", "p", "a", "r", "k">>
TxtCatsDogs ==
    <<"c", "a", "t", "s", " ", "a", "n", "d", " ", "d", "o", "g", "s", " ",
      "a", "r", "e", " ", "p", "e", "t", "s">>

\* The lists callers hold and pass to build_index, by name.  A1 is one
\* document of session A; A2 is the union of two documents of session A, so
\* its chunk_ids restart; B1 is a document of session B that shares A's
\* vocabulary; E is the empty list; Z holds one chunk without any token; S1
\* holds the three sentences of session s1; N holds the first page-wise
\* chunks of two documents of session A, which carry a chunk_id and no doc_id;
\* H holds chunks of session A as chunk_text makes them, without chunk_id and
\* doc_id, two of them with the same text; P is a document of session A of
\* eleven chunks, one more than a hybrid search asks of the keyword index.
ListIds == {"A1", "A2", "B1", "E", "Z", "S1", "N", "H", "P"}
InitialLists ==
    [l \in ListIds |->
        CASE l = "A1" -> << Chunk("dA", 0, "A", TxtCatDog),
                            Chunk("dA", 1, "A", TxtDogDog),
                            Chunk("dA", 2, "A", TxtCatDog) >>
          [] l = "A2" -> << Chunk("dA", 0, "A", TxtCatDot),
                            Chunk("dA", 1, "A", TxtDog),
                            Chunk("dA2", 0, "A", TxtDogUp) >>
          [] l = "B1" -> << Chunk("dB", 0, "B", TxtCatDog),
                            Chunk("dB", 1, "B", TxtDog) >>
          [] l = "Z" -> << Chunk("dA", 0, "A", TxtPunct) >>
          [] l = "N" -> << [chunk_id |-> 0, session_id |-> "A", text |-> TxtCatDot],
                           [chunk_id |-> 0, session_id |-> "A", text |-> TxtDog] >>
          [] l = "H" -> << [session_id |-> "A", text |-> TxtDog],
                           [session_id |-> "A", text |-> TxtCatDot],
                           [session_id |-> "A", text |-> TxtDog] >>
          [] l = "P" -> [i \in 1..11 |->
                            Chunk("dP", i - 1, "A",
                                  <<TxtCatDot, TxtDog, TxtDogUp, TxtDogDog,
                                    TxtCatDog>>[((i - 1) % 5) + 1])]
          [] l = "S1" -> << Chunk("d1", 0, "s1", TxtCatSat),
                            Chunk("d1", 1, "s1", TxtDogRan),
                            Chunk("d1", 2, "s1", TxtCatsDogs) >>
          [] OTHER -> << >>]

\* The lists a caller passes when it builds the index of session s.
ListsFor(s) == IF s = "A" THEN {"A1", "A2", "E", "Z"} ELSE {"B1", "E"}

\* The chunk a caller appends to a list it kept.
ExtraChunk == Chunk("dX", 9, "A", TxtDog)

QCat == <<"c", "a", "t">>
QDogCat == <<"D", "o", "g", " ", "c", "a", "t", "?">>
QZoo == <<"z", "o", "o">>
Queries == {QCat, QDogCat, QZoo, TxtPunct}

\* BM25Index._tokenize: lowercase, punctuation to spaces, split on spaces.
TokenizeText(txt) ==
    LET runs == SplitFrom([i \in 1..Len(txt) |-> StripChar(LowerChar(txt[i]))],
                          1, <<>>, <<>>)
    IN [i \in 1..Len(runs) |-> Word(runs[i])]

\* _tokenize on the texts and queries of the model, computed once.
Texts ==
    {TxtCatDog, TxtCatDot, TxtDogDog, TxtDog, TxtDogUp, TxtPunct,
     TxtCatSat, TxtDogRan, TxtCatsDogs}
TokenTable == [txt \in Texts \cup Queries |-> TokenizeText(txt)]
Tokenize(txt) == TokenTable[txt]

\* --------------------------------------------------------------- BM25Okapi

\* round(10000 * ln(x + 0.5)) for the corpus sizes that occur.
LnHalf(x) ==
    CASE x = 0 -> -6931
      [] x = 1 -> 4055
      [] x = 2 -> 9163
      [] x = 3 -> 12528
      [] x = 4 -> 15041
      [] x = 5 -> 17047
      [] x = 6 -> 18718
      [] x = 7 -> 20149
      [] x = 8 -> 21401
      [] x = 9 -> 22513
      [] x = 10 -> 23514
      [] OTHER -> 24423

RECURSIVE SumOver(_, _)
SumOver(f, S) ==
    IF S = {} THEN 0
    ELSE LET x == CHOOSE y \in S : TRUE IN f[x] + SumOver(f, S \ {x})

\* The words of a tokenized corpus.
Vocabulary(tc) == UNION {{tc[i][j] : j \in 1..Len(tc[i])} : i \in 1..Len(tc)}

\* Number of occurrences of word w in the token list doc.
Freq(doc, w) == Cardinality({j \in 1..Len(doc) : doc[j] = w})

\* Number of documents of the corpus holding w.
DocFreq(tc, w) == Cardinality({i \in 1..Len(tc) : Freq(tc[i], w) > 0})

\* BM25Okapi(tokenized_corpus) raises ZeroDivisionError for a corpus without
\* documents (avgdl) and for one without any word (average_idf).
BM25Raises(tc) == Len(tc) = 0 \/ Vocabulary(tc) = {}

RawIdf(tc, w) == LnHalf(Len(tc) - DocFreq(tc, w)) - LnHalf(DocFreq(tc, w))

\* BM25Okapi._calc_idf: a negative idf is replaced by epsilon * average_idf,
\* epsilon = 0.25.
Idf(tc, w) ==
    IF RawIdf(tc, w) >= 0 THEN RawIdf(tc, w)
    ELSE SumOver([v \in Vocabulary(tc) |-> RawIdf(tc, v)], Vocabulary(tc))
             \div (4 * Cardinality(Vocabulary(tc)))

\* BM25Okapi(tokenized_corpus): the scorer keeps each document's length and
\* word counts, the total length (avgdl is total_len / corpus_size) and the
\* idf of every word.
BM25Okapi(tc) ==
    [corpus_size |-> Len(tc),
     total_len |-> SumOver([i \in 1..Len(tc) |-> Len(tc[i])], 1..Len(tc)),
     doc_len |-> [i \in 1..Len(tc) |-> Len(tc[i])],
     doc_freqs |-> [i \in 1..Len(tc) |->
                       [w \in {tc[i][j] : j \in 1..Len(tc[i])} |-> Freq(tc[i], w)]],
     idf |-> [w \in Vocabulary(tc) |-> Idf(tc, w)]]

NoScorer ==
    [corpus_size |-> 0, total_len |-> 0, doc_len |-> << >>, doc_freqs |-> << >>,
     idf |-> << >>]

\* One query token's term of BM25Okapi.get_scores for document i, k1 = 1.5 and
\* b = 0.75:  idf * f * 2.5 / (f + 1.5 * (0.25 + 0.75 * len_i / avgdl)),
\* numerator and denominator multiplied by 8 * total_len.
ScoreTerm(bm25, i, w) ==
    IF w \notin DOMAIN bm25.doc_freqs[i] THEN 0
    ELSE (bm25.idf[w] * bm25.doc_freqs[i][w] * 20 * bm25.total_len)
             \div (8 * bm25.doc_freqs[i][w] * bm25.total_len + 3 * bm25.total_len
                       + 9 * bm25.doc_len[i] * bm25.corpus_size)

RECURSIVE ScoreFrom(_, _, _, _)
ScoreFrom(bm25, i, q, j) ==
    IF j > Len(q) THEN 0
    ELSE ScoreTerm(bm25, i, q[j]) + ScoreFrom(bm25, i, q, j + 1)

\* bm25.get_scores(tokenized_query): one score per document of the corpus.
GetScores(bm25, q) == [i \in 1..bm25.corpus_size |-> ScoreFrom(bm25, i, q, 1)]

\* ------------------------------------------------------------------- state

VARIABLES
    indexes,    \* BM25Index._indexes: session_id -> entry, a dict
    order,      \* the keys of _indexes in insertion order (dict iteration order)
    lists,      \* the heap of chunk lists callers hold: list name -> chunks
    now,        \* datetime.now(), in hours
    pc,         \* per thread: where its current call stands
    call,       \* per thread: the call it runs and its arguments
    loc,        \* per thread: the local variables of the call
    ret,        \* per thread: what the call returned or raised
    built       \* history: per session, the list passed to the build that
                \* published its current entry, its chunks at that moment and
                \* the time of the store

vars == <<indexes, order, lists, now, pc, call, loc, ret, built>>

\* The entry build_index stores: a dict literal with these five keys;
\* 'chunks' is a reference to the caller's list.
Entry(bm25, l, tc, at, n) ==
    [index |-> bm25, chunks |-> l, tokenized_corpus |-> tc,
     created_at |-> at, num_chunks |-> n]

NullEntry == Entry(NoScorer, "", << >>, 0, 0)

\* For a hybrid search, sid, query and top_k are the arguments of the
\* search_bm25 call it makes and h_top_k, bm25_weight (in tenths),
\* vector_weight (in tenths) and rrf_k those of HybridSearch itself.
NoCall == [op |-> "", sid |-> "", list |-> "", query |-> <<>>, top_k |-> 0,
           max_age |-> 0, h_top_k |-> 0, bm25_weight |-> 0,
           vector_weight |-> 0, rrf_k |-> 0]

NoLoc == [index_data |-> NullEntry, bm25 |-> NoScorer, chunks |-> "",
          tokenized_corpus |-> <<>>, now_c |-> 0, to_delete |-> <<>>,
          it_pos |-> 0, it_size |-> 0, caught |-> "", removed |-> << >>,
          overlap |-> FALSE, bm25_results |-> << >>, vector_results |-> << >>,
          fusion_map |-> << >>, vector_failed |-> FALSE]

NoStats == [num_chunks |-> 0, created_at |-> 0, age_seconds |-> 0]

NoRet == [kind |-> "", b |-> FALSE, items |-> <<>>, exc |-> "", stats |-> NoStats]
RetBool(v) == [NoRet EXCEPT !.kind = "bool", !.b = v]
RetList(xs) == [NoRet EXCEPT !.kind = "list", !.items = xs]
RetNone == [NoRet EXCEPT !.kind = "none"]
RetStats(st) == [NoRet EXCEPT !.kind = "stats", !.stats = st]
Raise(e) == [NoRet EXCEPT !.kind = "raise", !.exc = e]
RetFused(xs) == [NoRet EXCEPT !.kind = "fused", !.items = xs]

NoBuilt == [list |-> "", passed |-> << >>, at |-> 0]

Init ==
    /\ indexes = << >>
    /\ order = << >>
    /\ lists = InitialLists
    /\ now = 0
    /\ pc = [t \in Threads |-> "idle"]
    /\ call = [t \in Threads |-> NoCall]
    /\ loc = [t \in Threads |-> NoLoc]
    /\ ret = [t \in Threads |-> NoRet]
    /\ built = [s \in Sessions \cup {ScenarioSession} |-> NoBuilt]

\* -------------------------------------------------------------- dict steps

\* d[k] = v on a dict: an existing key keeps its place in the order.
DictSet(d, k, v) == [x \in DOMAIN d \cup {k} |-> IF x = k THEN v ELSE d[x]]
OrderSet(o, k) == IF \E i \in 1..Len(o) : o[i] = k THEN o ELSE Append(o, k)

\* del d[k]
DictDel(d, k) == [x \in DOMAIN d \ {k} |-> d[x]]
OrderDel(o, k) == SelectSeq(o, LAMBDA x : x # k)

\* The thread's call ends with result r.
Finish(t, r) ==
    /\ pc' = [pc EXCEPT ![t] = "done"]
    /\ ret' = [ret EXCEPT ![t] = r]

Goto(t, label) ==
    /\ pc' = [pc EXCEPT ![t] = label]
    /\ UNCHANGED ret

Begin(t, c) ==
    /\ pc[t] = "idle"
    /\ call' = [call EXCEPT ![t] = c]

\* ------------------------------------------------------------- build_index

\* tokenized_corpus = [cls._tokenize(chunk.get('text', '')) for chunk in chunks]
TokenizeAll(chunks) == [i \in 1..Len(chunks) |-> Tokenize(chunks[i].text)]

\* A build_index that takes an empty list as "drop the session's index".
BuildEmptyClears(t, s, l) ==
    /\ Begin(t, [NoCall EXCEPT !.op = "build", !.sid = s, !.list = l])
    /\ lists[l] = << >>
    /\ indexes' = DictDel(indexes, s)
    /\ order' = OrderDel(order, s)
    /\ built' = [built EXCEPT ![s] = NoBuilt]
    /\ Finish(t, RetBool(FALSE))
    /\ UNCHANGED <<lists, now, loc>>

\* build_index, "if not chunks": warn and return False.
BuildEmpty(t, s, l) ==
    /\ Begin(t, [NoCall EXCEPT !.op = "build", !.sid = s, !.list = l])
    /\ lists[l] = << >>
    /\ Finish(t, RetBool(FALSE))
    /\ UNCHANGED <<indexes, order, lists, now, loc, built>>

\* build_index: the tokenizing or BM25Okapi raises, the handler logs the error
\* and returns False.
BuildFail(t, s, l) ==
    /\ Begin(t, [NoCall EXCEPT !.op = "build", !.sid = s, !.list = l])
    /\ lists[l] # << >>
    /\ BM25Raises(TokenizeAll(lists[l]))
    /\ loc' = [loc EXCEPT ![t].caught = "ZeroDivisionError"]
    /\ Finish(t, RetBool(FALSE))
    /\ UNCHANGED <<indexes, order, lists, now, built>>

\* build_index up to the store: the corpus is tokenized and the scorer is
\* constructed, both local to the call.
BuildConstruct(t, s, l) ==
    /\ Begin(t, [NoCall EXCEPT !.op = "build", !.sid = s, !.list = l])
    /\ lists[l] # << >>
    /\ ~BM25Raises(TokenizeAll(lists[l]))
    /\ loc' = [loc EXCEPT ![t].tokenized_corpus = TokenizeAll(lists[l]),
                          ![t].bm25 = BM25Okapi(TokenizeAll(lists[l]))]
    /\ Goto(t, "b_publish")
    /\ UNCHANGED <<indexes, order, lists, now, built>>

\* A build_index that adds the new documents to the session's corpus.
NewEntryMerged(t) ==
    LET old == IF call[t].sid \in DOMAIN indexes
               THEN indexes[call[t].sid].tokenized_corpus ELSE << >>
    IN Entry(BM25Okapi(old \o loc[t].tokenized_corpus), call[t].list,
             old \o loc[t].tokenized_corpus, now,
             Len(old) + Len(lists[call[t].list]))

\* A build_index that replaces the chunks and the corpus of an existing entry
\* and keeps its scorer.
NewEntryMixed(t) ==
    Entry(IF call[t].sid \in DOMAIN indexes
          THEN indexes[call[t].sid].index ELSE loc[t].bm25,
          call[t].list, loc[t].tokenized_corpus, now, Len(lists[call[t].list]))

\* The entry build_index stores for the call of thread t.
NewEntry(t) ==
    Entry(loc[t].bm25, call[t].list, loc[t].tokenized_corpus, now,
          Len(lists[call[t].list]))

\* cls._indexes[session_id] = {...}; return True.  (History: overlap records
\* that another build of the same session was waiting to store at that
\* moment.)
BuildPublish(t) ==
    /\ pc[t] = "b_publish"
    /\ indexes' = DictSet(indexes, call[t].sid, NewEntry(t))
    /\ order' = OrderSet(order, call[t].sid)
    /\ built' = [built EXCEPT ![call[t].sid] =
                     [list |-> call[t].list, passed |-> lists[call[t].list],
                      at |-> now]]
    /\ loc' = [loc EXCEPT ![t].overlap =
                   \E u \in Threads \ {t} :
                       pc[u] = "b_publish" /\ call[u].sid = call[t].sid]
    /\ Finish(t, RetBool(TRUE))
    /\ UNCHANGED <<lists, now, call>>

\* ------------------------------------------------------------------ search

\* An ascending sort that is then reversed: equal scores come out reversed.
BeforeReversed(scores, i, j) ==
    scores[i] > scores[j] \/ (scores[i] = scores[j] /\ i > j)

\* sorted(range(len(scores)), key=lambda i: scores[i], reverse=True): a stable
\* sort, so documents of equal score keep their order.
Before(scores, i, j) ==
    scores[i] > scores[j] \/ (scores[i] = scores[j] /\ i < j)

SortedIndices(scores) ==
    LET n == Len(scores)
        rank(i) == 1 + Cardinality({j \in 1..n : Before(scores, j, i)})
    IN [r \in 1..n |-> CHOOSE i \in 1..n : rank(i) = r]

\* xs[:k] for k >= 0
Prefix(xs, k) == SubSeq(xs, 1, IF k < Len(xs) THEN k ELSE Len(xs))

\* chunk = chunks[idx].copy(); chunk['bm25_score'] = ...; chunk['search_method'] = 'bm25':
\* the copy has every key of the chunk, whichever they are, and these two.
Annotate(chunk, score) ==
    [bm25_score |-> score, search_method |-> "bm25"] @@ chunk

\* A search that keeps only the documents of positive score.
TopIndicesPositive(scores, k) ==
    Prefix(SelectSeq(SortedIndices(scores), LAMBDA i : scores[i] > 0), k)

\* The indices search keeps: every one of the top k, whatever its score.
TopIndices(scores, k) == Prefix(SortedIndices(scores), k)

\* search, "if session_id not in cls._indexes": warn and return [].
SearchMissing(t, s, q, k) ==
    /\ Begin(t, [NoCall EXCEPT !.op = "search", !.sid = s, !.query = q, !.top_k = k])
    /\ s \notin DOMAIN indexes
    /\ Finish(t, RetList(<< >>))
    /\ UNCHANGED <<indexes, order, lists, now, loc, built>>

\* search, the membership test passes.
SearchFound(t, s, q, k) ==
    /\ Begin(t, [NoCall EXCEPT !.op = "search", !.sid = s, !.query = q, !.top_k = k])
    /\ s \in DOMAIN indexes
    /\ Goto(t, "s_read")
    /\ UNCHANGED <<indexes, order, lists, now, loc, built>>

\* A search without its handler: the exception reaches the caller.
SearchPropagates(t, e) == Finish(t, Raise(e))

\* search's "except Exception": log the error and return [].
SearchOnError(t, e) == Finish(t, RetList(<< >>))

\* A registry that is not keyed by session: any entry will do.
LookupAny(s) == indexes[CHOOSE x \in DOMAIN indexes : x # s \/ DOMAIN indexes = {s}]

\* The registry entry search reads for session s.
Lookup(s) == indexes[s]

\* index_data = cls._indexes[session_id]: a KeyError when the entry is gone.
SearchRead(t) ==
    /\ pc[t] = "s_read"
    /\ IF call[t].sid \in DOMAIN indexes
       THEN /\ loc' = [loc EXCEPT ![t].index_data = Lookup(call[t].sid)]
            /\ Goto(t, "s_score")
       ELSE /\ loc' = [loc EXCEPT ![t].caught = "KeyError"]
            /\ SearchOnError(t, "KeyError")
    /\ UNCHANGED <<indexes, order, lists, now, call, built>>

\* A search that goes back to the registry for the chunk list.
ChunksOfRegistry(t) ==
    IF call[t].sid \in DOMAIN indexes
    THEN indexes[call[t].sid].chunks ELSE loc[t].index_data.chunks

\* chunks = index_data['chunks']
ChunksOf(t) == loc[t].index_data.chunks

\* The rest of search: the scorer and the chunk list of index_data, the query
\* tokenized, the scores, the top k in order, each a copy of its chunk with
\* the score and the method.
SearchScore(t) ==
    /\ pc[t] = "s_score"
    /\ LET bm25 == loc[t].index_data.index
           ref == ChunksOf(t)
           chunks == lists[ref]
           tq == Tokenize(call[t].query)
           scores == GetScores(bm25, tq)
           top == TopIndices(scores, call[t].top_k)
       IN IF tq = << >>
          THEN /\ loc' = [loc EXCEPT ![t].bm25 = bm25, ![t].chunks = ref]
               /\ Finish(t, RetList(<< >>))
          ELSE IF \E r \in 1..Len(top) : top[r] > Len(chunks)
          THEN /\ loc' = [loc EXCEPT ![t].bm25 = bm25, ![t].chunks = ref,
                                     ![t].caught = "IndexError"]
               /\ SearchOnError(t, "IndexError")
          ELSE /\ loc' = [loc EXCEPT ![t].bm25 = bm25, ![t].chunks = ref]
               /\ Finish(t, RetList([r \in 1..Len(top) |->
                                        Annotate(chunks[top[r]], scores[top[r]])]))
    /\ UNCHANGED <<indexes, order, lists, now, call, built>>

\* --------------------------------------------------------- get_index_stats

\* get_index_stats, "if session_id not in cls._indexes": return None.
StatsMissing(t, s) ==
    /\ Begin(t, [NoCall EXCEPT !.op = "stats", !.sid = s])
    /\ s \notin DOMAIN indexes
    /\ Finish(t, RetNone)
    /\ UNCHANGED <<indexes, order, lists, now, loc, built>>

StatsFound(t, s) ==
    /\ Begin(t, [NoCall EXCEPT !.op = "stats", !.sid = s])
    /\ s \in DOMAIN indexes
    /\ Goto(t, "g_read")
    /\ UNCHANGED <<indexes, order, lists, now, loc, built>>

\* index_data = cls._indexes[session_id] and the dict returned; nothing
\* catches the KeyError of an entry that is gone.
StatsRead(t) ==
    /\ pc[t] = "g_read"
    /\ IF call[t].sid \in DOMAIN indexes
       THEN LET d == indexes[call[t].sid]
            IN /\ loc' = [loc EXCEPT ![t].index_data = d]
               /\ Finish(t, RetStats([num_chunks |-> d.num_chunks,
                                      created_at |-> d.created_at,
                                      age_seconds |-> (now - d.created_at) * 3600]))
       ELSE /\ loc' = loc
            /\ Finish(t, Raise("KeyError"))
    /\ UNCHANGED <<indexes, order, lists, now, call, built>>

\* ------------------------------------------------------------ delete_index

\* delete_index, the key is absent: return False.
DeleteMissing(t, s) ==
    /\ Begin(t, [NoCall EXCEPT !.op = "delete", !.sid = s])
    /\ s \notin DOMAIN indexes
    /\ Finish(t, RetBool(FALSE))
    /\ UNCHANGED <<indexes, order, lists, now, loc, built>>

DeleteFound(t, s) ==
    /\ Begin(t, [NoCall EXCEPT !.op = "delete", !.sid = s])
    /\ s \in DOMAIN indexes
    /\ Goto(t, "d_del")
    /\ UNCHANGED <<indexes, order, lists, now, loc, built>>

\* A delete_index that empties the registry.
DeleteDelAll(t) ==
    /\ pc[t] = "d_del"
    /\ indexes' = << >>
    /\ order' = << >>
    /\ built' = [s \in DOMAIN built |-> NoBuilt]
    /\ Finish(t, RetBool(TRUE))
    /\ UNCHANGED <<lists, now, call, loc>>

\* del cls._indexes[session_id]; return True.  Nothing catches the KeyError
\* of an entry another thread deleted after the membership test.
DeleteDel(t) ==
    /\ pc[t] = "d_del"
    /\ IF call[t].sid \in DOMAIN indexes
       THEN /\ indexes' = DictDel(indexes, call[t].sid)
            /\ order' = OrderDel(order, call[t].sid)
            /\ built' = [built EXCEPT ![call[t].sid] = NoBuilt]
            /\ Finish(t, RetBool(TRUE))
       ELSE /\ UNCHANGED <<indexes, order, built>>
            /\ Finish(t, Raise("KeyError"))
    /\ UNCHANGED <<lists, now, call, loc>>

\* ----------------------------------------------------- cleanup_old_indexes

\* An eviction that starts at the limit instead of past it.
ExpiredAtLimit(data, at, max_age) == at - data.created_at >= max_age

\* age_hours = (now - data['created_at']).total_seconds() / 3600;
\* age_hours > max_age_hours
Expired(data, at, max_age) == at - data.created_at > max_age

\* now = datetime.now(); to_delete = []; the iterator over _indexes.items()
\* remembers the size of the dict.
CleanupBegin(t, m) ==
    /\ Begin(t, [NoCall EXCEPT !.op = "cleanup", !.max_age = m])
    /\ loc' = [loc EXCEPT ![t].now_c = now, ![t].to_delete = << >>,
                          ![t].it_pos = 1, ![t].it_size = Len(order)]
    /\ Goto(t, "c_iter")
    /\ UNCHANGED <<indexes, order, lists, now, built>>

\* What follows the scan and each delete_index call of the second loop.
CleanupNext(t, todo) ==
    IF todo = << >> THEN Finish(t, RetNone) ELSE Goto(t, "c_check")

\* One step of "for session_id, data in cls._indexes.items()": a RuntimeError
\* when the dict changed size since the iterator was made, the end of the
\* loop, or one item examined.
CleanupIter(t) ==
    /\ pc[t] = "c_iter"
    /\ IF Len(order) # loc[t].it_size
       THEN /\ loc' = loc
            /\ Finish(t, Raise("RuntimeError"))
       ELSE IF loc[t].it_pos > Len(order)
       THEN /\ loc' = loc
            /\ CleanupNext(t, loc[t].to_delete)
       ELSE LET k == order[loc[t].it_pos]
            IN /\ loc' = [loc EXCEPT
                     ![t].it_pos = @ + 1,
                     ![t].to_delete =
                         IF Expired(indexes[k], loc[t].now_c, call[t].max_age)
                         THEN Append(@, k) ELSE @]
               /\ Goto(t, "c_iter")
    /\ UNCHANGED <<indexes, order, lists, now, call, built>>

\* cls.delete_index(session_id) of the second loop, its membership test.
CleanupCheck(t) ==
    /\ pc[t] = "c_check"
    /\ IF Head(loc[t].to_delete) \in DOMAIN indexes
       THEN /\ loc' = loc
            /\ Goto(t, "c_del")
       ELSE /\ loc' = [loc EXCEPT ![t].to_delete = Tail(@)]
            /\ CleanupNext(t, Tail(loc[t].to_delete))
    /\ UNCHANGED <<indexes, order, lists, now, call, built>>

\* cls.delete_index(session_id) of the second loop, its del.
CleanupDel(t) ==
    /\ pc[t] = "c_del"
    /\ LET s == Head(loc[t].to_delete)
       IN IF s \in DOMAIN indexes
          THEN /\ indexes' = DictDel(indexes, s)
               /\ order' = OrderDel(order, s)
               /\ built' = [built EXCEPT ![s] = NoBuilt]
               /\ loc' = [loc EXCEPT ![t].to_delete = Tail(@),
                                     ![t].removed = Append(@, <<s, built[s].at>>)]
               /\ CleanupNext(t, Tail(loc[t].to_delete))
          ELSE /\ UNCHANGED <<indexes, order, built, loc>>
               /\ Finish(t, Raise("KeyError"))
    /\ UNCHANGED <<lists, now, call>>

\* ------------------------------------------------------------ HybridSearch

\* search_bm25(session_id, query, top_k=10) and
\* self._vector_search(session_id, query, top_k=10, ...)
PoolSize == 10

\* The (bm25_weight, vector_weight) pairs a HybridSearch is made with, in
\* tenths: the defaults 0.4/0.6, equal weights, a keyword weight twice the
\* vector weight, and weights of zero.  RrfKs are the values of rrf_k.
Weights == {<<4, 6>>, <<5, 5>>, <<4, 2>>, <<5, 0>>, <<0, 5>>, <<0, 0>>}
RrfKs == {0, 60}

RECURSIVE Gcd(_, _)
Gcd(a, b) == IF b = 0 THEN a ELSE Gcd(b, a % b)

\* Scores are fractions num/den in lowest terms, num >= 0 and den > 0.
Frac(n, d) == [num |-> n \div Gcd(n, d), den |-> d \div Gcd(n, d)]
FracAdd(x, y) == Frac(x.num * y.den + y.num * x.den, x.den * y.den)
FracLess(x, y) == x.num * y.den < y.num * x.den
FracEq(x, y) == x.num * y.den = y.num * x.den
\* x * weight, the weight in tenths.
FracScale(x, w) == Frac(x.num * w, x.den * 10)

\* A contribution without the smoothing constant.
RrfNoSmoothing(rk, rank) == Frac(1, rank)

\* rrf_score = 1 / (self.rrf_k + rank)
Rrf(rk, rank) == Frac(1, rk + rank)

\* What item.get('bm25_rank') gives for an item without that key; the ranks
\* of the lists start at 1.
None == 0

\* hash(text): equal for equal texts; the texts of the model do not collide.
HashOf(txt) ==
    CASE txt = TxtDog -> 7001
      [] txt = TxtCatDot -> 7002
      [] txt = TxtDogUp -> 7003
      [] txt = TxtDogDog -> 7004
      [] txt = TxtCatDog -> 7005
      [] txt = TxtPunct -> 7006
      [] txt = TxtCatSat -> 7007
      [] txt = TxtDogRan -> 7008
      [] txt = TxtCatsDogs -> 7009
      [] OTHER -> 7000

\* HybridSearch._get_chunk_id: str(chunk['id']) if the chunk has an id (the
\* ids of the model are strings); else f"{doc_id}_{chunk_id}" if it has a
\* chunk_id, doc_id being '' when the chunk has none; else str(hash(text)).
GetChunkId(chunk) ==
    IF "id" \in DOMAIN chunk THEN chunk.id
    ELSE IF "chunk_id" \in DOMAIN chunk
    THEN (IF "doc_id" \in DOMAIN chunk THEN chunk.doc_id ELSE "")
             \o "_" \o ToString(chunk.chunk_id)
    ELSE ToString(HashOf(IF "text" \in DOMAIN chunk THEN chunk.text ELSE << >>))

\* The place of key id in the fusion map (a dict, in insertion order), 0 when
\* it is not a key.
Position(map, id) ==
    IF \E p \in 1..Len(map) : map[p].id = id
    THEN CHOOSE p \in 1..Len(map) : map[p].id = id
    ELSE 0

\* The item the first loop stores for a keyword result: no 'vector_rank' key.
Bm25Item(id, result, rank, wb, rk) ==
    [id |-> id, chunk |-> result, bm25_rank |-> rank, vector_rank |-> None,
     bm25_rrf |-> Rrf(rk, rank), vector_rrf |-> Frac(0, 1),
     total_score |-> FracScale(Rrf(rk, rank), wb)]

\* The item the second loop stores for a vector result that is new to the
\* map: no 'bm25_rank' key.
VectorItem(id, result, rank, wv, rk) ==
    [id |-> id, chunk |-> result, bm25_rank |-> None, vector_rank |-> rank,
     bm25_rrf |-> Frac(0, 1), vector_rrf |-> Rrf(rk, rank),
     total_score |-> FracScale(Rrf(rk, rank), wv)]

\* A fusion that gives a chunk of both lists the better of its two
\* contributions.
AddVectorBest(item, rank, wv, rk) ==
    [item EXCEPT !.vector_rank = rank,
                 !.vector_rrf = Rrf(rk, rank),
                 !.total_score = IF FracLess(@, FracScale(Rrf(rk, rank), wv))
                                 THEN FracScale(Rrf(rk, rank), wv) ELSE @]

\* A fusion that notes the vector rank of a chunk of both lists and leaves
\* its total as the keyword list made it.
AddVectorRankOnly(item, rank, wv, rk) ==
    [item EXCEPT !.vector_rank = rank, !.vector_rrf = Rrf(rk, rank)]

\* "Chunk found in both - add vector score": the item gets the vector rank
\* and contribution, and its total grows by rrf_score * vector_weight.
AddVector(item, rank, wv, rk) ==
    [item EXCEPT !.vector_rank = rank,
                 !.vector_rrf = Rrf(rk, rank),
                 !.total_score = FracAdd(@, FracScale(Rrf(rk, rank), wv))]

RECURSIVE FuseBm25(_, _, _, _, _)
\* for rank, result in enumerate(bm25_results, start=1): fusion_map[id] = item
FuseBm25(results, rank, map, wb, rk) ==
    IF rank > Len(results) THEN map
    ELSE LET id == GetChunkId(results[rank])
             item == Bm25Item(id, results[rank], rank, wb, rk)
             p == Position(map, id)
         IN FuseBm25(results, rank + 1,
                     IF p = 0 THEN Append(map, item) ELSE [map EXCEPT ![p] = item],
                     wb, rk)

RECURSIVE FuseVector(_, _, _, _, _)
\* for rank, result in enumerate(vector_results, start=1)
FuseVector(results, rank, map, wv, rk) ==
    IF rank > Len(results) THEN map
    ELSE LET id == GetChunkId(results[rank])
             p == Position(map, id)
         IN FuseVector(results, rank + 1,
                       IF p = 0
                       THEN Append(map, VectorItem(id, results[rank], rank, wv, rk))
                       ELSE [map EXCEPT ![p] = AddVector(map[p], rank, wv, rk)],
                       wv, rk)

\* fusion_map after both loops.
FusionMap(bm25_results, vector_results, wb, wv, rk) ==
    FuseVector(vector_results, 1, FuseBm25(bm25_results, 1, << >>, wb, rk), wv, rk)

\* A sort that puts, among items of equal total, those found in both lists
\* first.
FusedBeforeBothFirst(map, i, j) ==
    \/ FracLess(map[j].total_score, map[i].total_score)
    \/ /\ FracEq(map[i].total_score, map[j].total_score)
       /\ LET both(x) == x.bm25_rank # None /\ x.vector_rank # None
          IN \/ both(map[i]) /\ ~both(map[j])
             \/ (both(map[i]) = both(map[j])) /\ i < j

\* A sort without reverse=True: lowest total first.
FusedBeforeAscending(map, i, j) ==
    \/ FracLess(map[i].total_score, map[j].total_score)
    \/ FracEq(map[i].total_score, map[j].total_score) /\ i < j

\* sorted(fusion_map.values(), key=lambda x: x['total_score'], reverse=True):
\* a stable sort, so items of equal total keep the order of the map.
FusedBefore(map, i, j) ==
    \/ FracLess(map[j].total_score, map[i].total_score)
    \/ FracEq(map[i].total_score, map[j].total_score) /\ i < j

FusedOrder(map) ==
    LET n == Len(map)
        rank(i) == 1 + Cardinality({j \in 1..n : FusedBefore(map, j, i)})
    IN [r \in 1..n |-> CHOOSE i \in 1..n : rank(i) = r]

\* chunk = item['chunk'].copy() with hybrid_score, search_method and
\* ranking_details set.
FusedChunk(item) ==
    [hybrid_score |-> item.total_score,
     search_method |-> "hybrid",
     ranking_details |-> [bm25_rank |-> item.bm25_rank,
                          vector_rank |-> item.vector_rank,
                          bm25_rrf |-> item.bm25_rrf,
                          vector_rrf |-> item.vector_rrf]] @@ item.chunk

\* A fusion that returns every item, whatever top_k.
FinalResultsAll(map, top_k) ==
    [r \in 1..Len(map) |-> FusedChunk(map[FusedOrder(map)[r]])]

\* sorted(...)[:top_k] and the final result list built from it.
FinalResults(map, top_k) ==
    LET top == Prefix(FusedOrder(map), top_k)
    IN [r \in 1..Len(top) |-> FusedChunk(map[top[r]])]

\* HybridSearch._reciprocal_rank_fusion
ReciprocalRankFusion(bm25_results, vector_results, top_k, wb, wv, rk) ==
    FinalResults(FusionMap(bm25_results, vector_results, wb, wv, rk), top_k)

\* What storage.query returns for a match: id, score (in hundredths), text.
VectorResult(id, score, txt) == [id |-> id, score |-> score, text |-> txt]

\* PineconeStorage.store_chunks: vector_id = f"{doc_id}_chunk_{i}", i being
\* the position of the chunk in the list stored, which is its chunk_id.
VectorId(doc_id, i) == doc_id \o "_chunk_" \o ToString(i)

\* The answers of the vector store for a session, best match first.  An id
\* is the composite of a chunk the keyword index may hold ("dA_1"), the id
\* store_chunks gave to such a chunk, or the id of a chunk the index does
\* not hold.
VectorAnswers(s) ==
    IF s = "A"
    THEN { << >>,
           << VectorResult("dA_1", 90, TxtDog) >>,
           << VectorResult(VectorId("dA", 1), 90, TxtDog) >>,
           << VectorResult("dA_chunk_7", 90, TxtDogDog),
              VectorResult("dA_1", 80, TxtDog) >>,
           << VectorResult("dA_1", 90, TxtDog),
              VectorResult("dA_0", 80, TxtCatDot),
              VectorResult("dA_chunk_7", 70, TxtDogDog) >> }
    ELSE { << >>,
           << VectorResult("dB_1", 90, TxtDog) >>,
           << VectorResult("dB_1", 90, TxtDog),
              VectorResult("dB_7", 80, TxtDogDog) >> }

\* _vector_search: result['search_method'] = 'vector';
\* result['vector_score'] = result.get('score', 0)
VectorTag(result) ==
    [search_method |-> "vector", vector_score |-> result.score] @@ result

HybridCall(s, q, k, wb, wv, rk) ==
    [NoCall EXCEPT !.op = "hybrid", !.sid = s, !.query = q, !.top_k = PoolSize,
                   !.h_top_k = k, !.bm25_weight = wb, !.vector_weight = wv,
                   !.rrf_k = rk]

\* HybridSearch.search enters search_bm25(session_id, query, top_k=10), which
\* is BM25Index.search: the session has no index and the search returns [].
HybridMissing(t, s, q, k, wb, wv, rk) ==
    /\ Begin(t, HybridCall(s, q, k, wb, wv, rk))
    /\ s \notin DOMAIN indexes
    /\ Finish(t, RetList(<< >>))
    /\ UNCHANGED <<indexes, order, lists, now, loc, built>>

\* The same entry, the membership test of BM25Index.search passes; the search
\* goes on with SearchRead and SearchScore.
HybridFound(t, s, q, k, wb, wv, rk) ==
    /\ Begin(t, HybridCall(s, q, k, wb, wv, rk))
    /\ s \in DOMAIN indexes
    /\ Goto(t, "s_read")
    /\ UNCHANGED <<indexes, order, lists, now, loc, built>>

\* search_bm25 has returned into HybridSearch.search: bm25_results is its
\* list; vector_results = self._vector_search(...), which is the tagged answer
\* of the vector store, or [] when the store or the embedder raises.
HybridVector(t) ==
    /\ pc[t] = "done"
    /\ call[t].op = "hybrid"
    /\ ret[t].kind = "list"
    /\ \E ans \in VectorAnswers(call[t].sid), ok \in BOOLEAN :
          loc' = [loc EXCEPT
                     ![t].bm25_results = ret[t].items,
                     ![t].vector_results =
                         IF ok THEN [i \in 1..Len(ans) |-> VectorTag(ans[i])]
                         ELSE << >>,
                     ![t].vector_failed = ~ok]
    /\ Goto(t, "h_fuse")
    /\ UNCHANGED <<indexes, order, lists, now, call, built>>

\* combined_results = self._reciprocal_rank_fusion(bm25_results,
\* vector_results, top_k=top_k); return combined_results.  With rrf_k >= 0
\* nothing in the try block raises.
HybridFuse(t) ==
    /\ pc[t] = "h_fuse"
    /\ loc' = [loc EXCEPT ![t].fusion_map =
                   FusionMap(loc[t].bm25_results, loc[t].vector_results,
                             call[t].bm25_weight, call[t].vector_weight,
                             call[t].rrf_k)]
    /\ Finish(t, RetFused(ReciprocalRankFusion(
                     loc[t].bm25_results, loc[t].vector_results,
                     call[t].h_top_k, call[t].bm25_weight,
                     call[t].vector_weight, call[t].rrf_k)))
    /\ UNCHANGED <<indexes, order, lists, now, call, built>>

\* ---------------------------------------------------------------- chunkers

\* Page texts are sequences of one-character strings, as the texts of chunks
\* are.  \s matches the blank and the newline; a sentence ends with one of
\* . ! ?
IsSpace(c) == c \in {" ", "\n"}
IsEnd(c) == c \in {".", "!", "?"}

SetMin(S) == CHOOSE x \in S : \A y \in S : x <= y
SetMax(S) == CHOOSE x \in S : \A y \in S : y <= x

\* str.strip()
Strip(txt) ==
    LET keep == {i \in 1..Len(txt) : ~IsSpace(txt[i])}
    IN IF keep = {} THEN << >> ELSE SubSeq(txt, SetMin(keep), SetMax(keep))

\* text[-n:] for n > 0; text[-0:] is the whole text.
LastChars(txt, n) ==
    IF n = 0 \/ n >= Len(txt) THEN txt ELSE SubSeq(txt, Len(txt) - n + 1, Len(txt))

\* The last position of the run of whitespace that starts at i; i - 1 when
\* there is none.
SpaceRunEnd(txt, i) ==
    LET stops == {j \in i..Len(txt) : ~IsSpace(txt[j])}
    IN IF stops = {} THEN Len(txt) ELSE SetMin(stops) - 1

RECURSIVE SplitParagraphsFrom(_, _, _, _)
\* re.split(r'\n\s*\n', text): the leftmost newline that is followed, within
\* the run of whitespace after it, by another newline starts a separator,
\* which ends at the last newline of that run.
SplitParagraphsFrom(txt, start, i, acc) ==
    IF i > Len(txt) THEN Append(acc, SubSeq(txt, start, Len(txt)))
    ELSE LET nl == {j \in (i + 1)..SpaceRunEnd(txt, i + 1) : txt[j] = "\n"}
         IN IF txt[i] = "\n" /\ nl # {}
            THEN SplitParagraphsFrom(txt, SetMax(nl) + 1, SetMax(nl) + 1,
                                     Append(acc, SubSeq(txt, start, i - 1)))
            ELSE SplitParagraphsFrom(txt, start, i + 1, acc)

\* The parts that are left after p.strip(), for a list of parts.
StrippedParts(parts) ==
    SelectSeq([i \in 1..Len(parts) |-> Strip(parts[i])], LAMBDA p : p # << >>)

\* _split_into_paragraphs, the same in both chunkers.
SplitIntoParagraphs(txt) == StrippedParts(SplitParagraphsFrom(txt, 1, 1, << >>))

RECURSIVE SplitSentencesFrom(_, _, _, _)
\* re.split(r'(?<=[.!?])\s+', text): a run of whitespace that follows a
\* sentence end is a separator.
SplitSentencesFrom(txt, start, i, acc) ==
    IF i > Len(txt) THEN Append(acc, SubSeq(txt, start, Len(txt)))
    ELSE IF i > 1 /\ IsSpace(txt[i]) /\ IsEnd(txt[i - 1])
    THEN SplitSentencesFrom(txt, SpaceRunEnd(txt, i) + 1, SpaceRunEnd(txt, i) + 1,
                            Append(acc, SubSeq(txt, start, i - 1)))
    ELSE SplitSentencesFrom(txt, start, i + 1, acc)

\* text_chunker.py, _split_into_sentences
SplitIntoSentences(txt) == StrippedParts(SplitSentencesFrom(txt, 1, 1, << >>))

RECURSIVE JoinFrom(_, _, _)
\* sep.join(parts[i:])
JoinFrom(parts, i, sep) ==
    IF i > Len(parts) THEN << >>
    ELSE IF i = Len(parts) THEN parts[i]
    ELSE parts[i] \o sep \o JoinFrom(parts, i + 1, sep)

\* semantic_chunker.py, _get_sentence_overlap: the last n sentences of the
\* split, which are not stripped, joined by blanks; sentences[-0:] is the
\* whole list.
GetSentenceOverlap(txt, n) ==
    LET sentences == SplitSentencesFrom(txt, 1, 1, << >>)
    IN IF n > 0 /\ Len(sentences) >= n
       THEN JoinFrom(sentences, Len(sentences) - n + 1, <<" ">>)
       ELSE JoinFrom(sentences, 1, <<" ">>)

\* metadata=None
NoMetadata == << >>

\* The result of chunk_text: the chunks, and for each chunk the branch that
\* appended it and the accumulation as it stood there (before strip()).
NoChunks == [chunks |-> << >>, trace |-> << >>]

Emit(out, chunk, why, acc) ==
    [chunks |-> Append(out.chunks, chunk),
     trace |-> Append(out.trace, [why |-> why, acc |-> acc])]

\* -- text_chunker.py

\* SemanticChunker._create_chunk of text_chunker.py; chunk.update(metadata).
TextCreateChunk(txt, metadata, start_pos) ==
    metadata @@ [text |-> txt, length |-> Len(txt), start_pos |-> start_pos]

RECURSIVE TextSentenceLoop(_, _, _, _, _)
\* "for sentence in sentences" over an oversized paragraph; st holds chunks,
\* trace, current_chunk_start (start) and temp_chunk (temp).  The chunk that
\* follows a closed one starts with the sentence alone.
TextSentenceLoop(sentences, i, st, cfg, metadata) ==
    IF i > Len(sentences) THEN st
    ELSE LET s == sentences[i]
         IN TextSentenceLoop(sentences, i + 1,
                IF Len(st.temp) + Len(s) <= cfg.chunk_size
                THEN [st EXCEPT !.temp = @ \o s \o <<" ">>]
                ELSE IF st.temp # << >>
                THEN [Emit(st, TextCreateChunk(Strip(st.temp), metadata, st.start),
                           "sentence_overflow", st.temp)
                      @@ st EXCEPT
                         !.start = @ + Len(st.temp) - cfg.chunk_overlap,
                         !.temp = s \o <<" ">>]
                ELSE [st EXCEPT !.temp = s \o <<" ">>],
                cfg, metadata)

\* The branch "if len(para) > self.chunk_size": the current chunk is saved as
\* it is, without strip(), and the paragraph is split into sentences; what is
\* left in temp_chunk becomes the current chunk.
TextLargeParagraph(para, st, cfg, metadata) ==
    LET saved == IF st.cur # << >>
                 THEN [Emit(st, TextCreateChunk(st.cur, metadata, st.start),
                            "before_large", st.cur)
                       @@ st EXCEPT !.cur = << >>]
                 ELSE st
        after == TextSentenceLoop(SplitIntoSentences(para), 1,
                                  [saved EXCEPT !.temp = << >>], cfg, metadata)
    IN IF after.temp # << >> THEN [after EXCEPT !.cur = after.temp] ELSE after

\* The other branch: the paragraph joins the current chunk if it fits; else
\* the current chunk is saved and the next one starts with its last
\* chunk_overlap characters.
TextSmallParagraph(para, st, cfg, metadata) ==
    IF Len(st.cur) + Len(para) <= cfg.chunk_size
    THEN [st EXCEPT !.cur = @ \o para \o <<"\n", "\n">>]
    ELSE IF st.cur # << >>
    THEN LET overlap_text == IF Len(st.cur) > cfg.chunk_overlap
                             THEN LastChars(st.cur, cfg.chunk_overlap)
                             ELSE st.cur
             next == overlap_text \o para \o <<"\n", "\n">>
         IN [Emit(st, TextCreateChunk(Strip(st.cur), metadata, st.start),
                  "paragraph_overflow", st.cur)
             @@ st EXCEPT !.cur = next,
                          !.start = @ + Len(next) - Len(overlap_text)]
    ELSE [st EXCEPT !.cur = para \o <<"\n", "\n">>]

RECURSIVE TextParagraphLoop(_, _, _, _, _)
\* "for para in paragraphs"
TextParagraphLoop(paragraphs, i, st, cfg, metadata) ==
    IF i > Len(paragraphs) THEN st
    ELSE TextParagraphLoop(paragraphs, i + 1,
             IF Len(paragraphs[i]) > cfg.chunk_size
             THEN TextLargeParagraph(paragraphs[i], st, cfg, metadata)
             ELSE TextSmallParagraph(paragraphs[i], st, cfg, metadata),
             cfg, metadata)

\* SemanticChunker.chunk_text of text_chunker.py; cfg holds chunk_size,
\* chunk_overlap and min_chunk_size.
TextChunkText(txt, metadata, cfg) ==
    IF Strip(txt) = << >> THEN NoChunks
    ELSE LET st == TextParagraphLoop(
                       SplitIntoParagraphs(txt), 1,
                       [chunks |-> << >>, trace |-> << >>, cur |-> << >>,
                        start |-> 0, temp |-> << >>],
                       cfg, metadata)
             out == [chunks |-> st.chunks, trace |-> st.trace]
         IN IF st.cur # << >> /\ Len(Strip(st.cur)) >= cfg.min_chunk_size
            THEN Emit(out, TextCreateChunk(Strip(st.cur), metadata, st.start),
                      "final", st.cur)
            ELSE out

\* -- semantic_chunker.py

RECURSIVE SplitLinesFrom(_, _, _, _)
\* text.split('\n')
SplitLinesFrom(txt, start, i, acc) ==
    IF i > Len(txt) THEN Append(acc, SubSeq(txt, start, Len(txt)))
    ELSE IF txt[i] = "\n"
    THEN SplitLinesFrom(txt, i + 1, i + 1, Append(acc, SubSeq(txt, start, i - 1)))
    ELSE SplitLinesFrom(txt, start, i + 1, acc)

\* re.match of the heading patterns on line.strip().  The texts of the model
\* have no capital letter and no digit, which the other three patterns
\* require, so the Markdown pattern r'^#+\s+.+$' decides: marks, whitespace,
\* and something after it.
IsHeading(line) ==
    LET marks == {h \in 1..Len(line) : \A j \in 1..h : line[j] = "#"}
    IN /\ marks # {}
       /\ SetMax(marks) + 1 < Len(line)
       /\ IsSpace(line[SetMax(marks) + 1])

RECURSIVE SectionLoop(_, _, _)
\* "for line in lines" of _split_into_sections; st holds sections,
\* current_section and current_heading.
SectionLoop(lines, i, st) ==
    IF i > Len(lines) THEN st
    ELSE SectionLoop(lines, i + 1,
             IF IsHeading(Strip(lines[i])) /\ st.current_section # << >>
             THEN [sections |-> Append(st.sections,
                                       [heading |-> st.current_heading,
                                        text |-> Strip(st.current_section)]),
                   current_section |-> << >>,
                   current_heading |-> Strip(lines[i])]
             ELSE IF IsHeading(Strip(lines[i]))
             THEN [st EXCEPT !.current_heading = Strip(lines[i])]
             ELSE [st EXCEPT !.current_section = @ \o lines[i] \o <<"\n">>])

\* SemanticChunker._split_into_sections
SplitIntoSections(txt) ==
    LET st == SectionLoop(SplitLinesFrom(txt, 1, 1, << >>), 1,
                          [sections |-> << >>, current_section |-> << >>,
                           current_heading |-> << >>])
        sections == IF Strip(st.current_section) # << >>
                    THEN Append(st.sections, [heading |-> st.current_heading,
                                              text |-> Strip(st.current_section)])
                    ELSE st.sections
    IN IF sections = << >> THEN << [heading |-> << >>, text |-> txt] >>
       ELSE sections

\* SemanticChunker._create_chunk of semantic_chunker.py
SemCreateChunk(txt, metadata, section_heading) ==
    metadata @@
    ((IF section_heading # << >> THEN [section_heading |-> section_heading]
      ELSE << >>)
     @@ [text |-> txt, length |-> Len(txt), start_pos |-> 0])

RECURSIVE SemParagraphLoop(_, _, _, _, _, _)
\* "for para in paragraphs" over a section larger than max_chunk_size; st
\* holds chunks, trace and current_chunk (cur).  A current chunk below
\* min_chunk_size takes the paragraph although it does not fit.
SemParagraphLoop(paragraphs, i, st, cfg, metadata, heading) ==
    IF i > Len(paragraphs) THEN st
    ELSE LET para == paragraphs[i]
         IN SemParagraphLoop(paragraphs, i + 1,
                IF Len(st.cur) + Len(para) <= cfg.max_chunk_size
                THEN [st EXCEPT !.cur = @ \o para \o <<"\n", "\n">>]
                ELSE IF Len(Strip(st.cur)) >= cfg.min_chunk_size
                THEN [Emit(st, SemCreateChunk(Strip(st.cur), metadata, heading),
                           "paragraph_overflow", st.cur)
                      @@ st EXCEPT
                         !.cur = GetSentenceOverlap(st.cur, cfg.overlap_sentences)
                                     \o para \o <<"\n", "\n">>]
                ELSE [st EXCEPT !.cur = @ \o para \o <<"\n", "\n">>],
                cfg, metadata, heading)

\* One section of "for section in sections"; st holds chunks, trace and
\* previous_overlap (prev).
SemSection(section, st, cfg, metadata) ==
    IF Len(section.text) <= cfg.max_chunk_size
    THEN LET chunk_text == st.prev \o section.text
         IN IF Len(chunk_text) >= cfg.min_chunk_size
            THEN [Emit(st, SemCreateChunk(chunk_text, metadata, section.heading),
                       "section", chunk_text)
                  @@ st EXCEPT
                     !.prev = GetSentenceOverlap(chunk_text, cfg.overlap_sentences)]
            ELSE st
    ELSE LET after == SemParagraphLoop(
                          SplitIntoParagraphs(section.text), 1,
                          [chunks |-> st.chunks, trace |-> st.trace,
                           cur |-> st.prev],
                          cfg, metadata, section.heading)
         IN IF Len(Strip(after.cur)) >= cfg.min_chunk_size
            THEN Emit(after, SemCreateChunk(Strip(after.cur), metadata,
                                            section.heading),
                      "remaining", after.cur)
                 @@ [prev |-> GetSentenceOverlap(after.cur, cfg.overlap_sentences)]
            ELSE [chunks |-> after.chunks, trace |-> after.trace, prev |-> st.prev]

RECURSIVE SemSectionLoop(_, _, _, _, _)
SemSectionLoop(sections, i, st, cfg, metadata) ==
    IF i > Len(sections) THEN st
    ELSE SemSectionLoop(sections, i + 1,
                        SemSection(sections[i], st, cfg, metadata), cfg, metadata)

\* SemanticChunker.chunk_text of semantic_chunker.py; cfg holds
\* max_chunk_size, min_chunk_size and overlap_sentences.
SemChunkText(txt, metadata, cfg) ==
    IF Strip(txt) = << >> THEN NoChunks
    ELSE LET st == SemSectionLoop(SplitIntoSections(txt), 1,
                                  [chunks |-> << >>, trace |-> << >>,
                                   prev |-> << >>],
                                  cfg, metadata)
         IN [chunks |-> st.chunks, trace |-> st.trace]

\* -- chunk_pdf_pages

\* A page of an extraction result, without images.
Page(n, txt) == [page_num |-> n, text |-> txt, images |-> << >>]

\* "[...from previous page]\n"
FromPreviousPage ==
    <<"[", ".", ".", ".", "f", "r", "o", "m", " ", "p", "r", "e", "v", "i",
      "o", "u", "s", " ", "p", "a", "g", "e", "]", "\n">>

RECURSIVE TextPageOverlap(_, _, _, _, _)
\* "for overlap_idx in range(1, min(overlap_pages + 1, idx + 1))", idx counted
\* from 0: the last 30% of each previous page, int(len(prev_text) * 0.3)
\* characters, goes before the chunk text when it is not empty, and the
\* number of that page before the numbers of the pages of the chunk.  acc
\* holds chunk_text (text) and ','.join of overlapped_pages (pages).
TextPageOverlap(pages, idx, overlap_idx, overlap_pages, acc) ==
    IF overlap_idx > overlap_pages \/ overlap_idx > idx THEN acc
    ELSE LET prev_page == pages[idx + 1 - overlap_idx]
             overlap_length == (Len(prev_page.text) * 3) \div 10
             overlap_text == IF overlap_length > 0
                             THEN LastChars(prev_page.text, overlap_length)
                             ELSE << >>
         IN TextPageOverlap(pages, idx, overlap_idx + 1, overlap_pages,
                IF overlap_text # << >>
                THEN [text |-> FromPreviousPage \o overlap_text
                                   \o <<"\n", "\n">> \o acc.text,
                      pages |-> ToString(prev_page.page_num) \o "," \o acc.pages]
                ELSE acc)

\* The page-wise branch of chunk_pdf_pages of text_chunker.py: the chunk of
\* the page at position idx (from 0).
TextPageChunk(doc_id, pages, idx, overlap_pages) ==
    LET page == pages[idx + 1]
        acc == TextPageOverlap(pages, idx, 1, overlap_pages,
                               [text |-> page.text,
                                pages |-> ToString(page.page_num)])
    IN [text |-> acc.text, length |-> Len(acc.text), chunk_id |-> idx,
        start_pos |-> 0, doc_id |-> doc_id, page_num |-> page.page_num,
        pages |-> acc.pages, has_images |-> Len(page.images) > 0,
        num_images |-> Len(page.images), image_types |-> << >>,
        chunk_strategy |-> "page_wise"]

\* A page-wise chunking that leaves out the pages without text.
TextPageWiseNonEmpty(doc_id, pages, overlap_pages) ==
    LET all == [i \in 1..Len(pages) |->
                   TextPageChunk(doc_id, pages, i - 1, overlap_pages)]
    IN SelectSeq(all, LAMBDA c : Strip(c.text) # << >>)

\* chunk_pdf_pages(extraction_result, page_wise=True, overlap_pages)
TextPageWise(doc_id, pages, overlap_pages) ==
    [i \in 1..Len(pages) |-> TextPageChunk(doc_id, pages, i - 1, overlap_pages)]

RECURSIVE Extend(_, _)
\* all_chunks.extend(page_chunks) for the pages from position i on.
Extend(page_chunks, i) ==
    IF i > Len(page_chunks) THEN << >>
    ELSE page_chunks[i] \o Extend(page_chunks, i + 1)

\* "for idx, chunk in enumerate(all_chunks): chunk['chunk_id'] = idx"
GlobalChunkIds(all_chunks) ==
    [i \in 1..Len(all_chunks) |-> [chunk_id |-> i - 1] @@ all_chunks[i]]

\* chunk_pdf_pages(extraction_result, page_wise=False) of text_chunker.py
TextCharacterBased(doc_id, pages, cfg) ==
    LET chunksOf(page) ==
            TextChunkText(page.text,
                          [doc_id |-> doc_id, page_num |-> page.page_num,
                           has_images |-> Len(page.images) > 0,
                           num_images |-> Len(page.images),
                           image_types |-> << >>,
                           chunk_strategy |-> "character_based"],
                          cfg).chunks
    IN GlobalChunkIds(Extend([i \in 1..Len(pages) |-> chunksOf(pages[i])], 1))

\* SemanticChunker._chunk_page_wise: the chunk of the page at position i
\* (from 0), with the last sentences of the page before it when that page has
\* text.
SemPageChunk(doc_id, pages, i, cfg) ==
    LET txt == IF i > 0 /\ Len(pages[i].text) > 0
               THEN GetSentenceOverlap(pages[i].text, cfg.overlap_sentences)
                        \o <<"\n", "\n">> \o pages[i + 1].text
               ELSE pages[i + 1].text
    IN [text |-> txt, doc_id |-> doc_id, page_num |-> pages[i + 1].page_num,
        pages |-> ToString(pages[i + 1].page_num),
        has_images |-> Len(pages[i + 1].images) > 0,
        num_images |-> Len(pages[i + 1].images),
        chunk_id |-> i, length |-> Len(txt), start_pos |-> 0]

\* chunk_pdf_pages(extraction_result, strategy="page_wise")
SemPageWise(doc_id, pages, cfg) ==
    [i \in 1..Len(pages) |-> SemPageChunk(doc_id, pages, i - 1, cfg)]

\* chunk_pdf_pages(extraction_result, strategy="semantic"); the pages of the
\* model have no images, so enhanced_text is the text of the page.
SemSemantic(doc_id, pages, cfg) ==
    LET chunksOf(page) ==
            SemChunkText(page.text,
                         [doc_id |-> doc_id, page_num |-> page.page_num,
                          has_images |-> Len(page.images) > 0,
                          num_images |-> Len(page.images)],
                         cfg).chunks
    IN GlobalChunkIds(Extend([i \in 1..Len(pages) |-> chunksOf(pages[i])], 1))

\* -- the calls

\* Page texts are made of at most MaxPieces pieces: a short sentence, a
\* longer one, a blank, a paragraph break and a heading line.
MaxPieces == 4
ChunkPieces ==
    { <<"a", ".">>, <<"b", "b", ".">>, <<" ">>, <<"\n", "\n">>,
      <<"#", " ", "h", "\n">> }

RECURSIVE Concats(_)
Concats(n) ==
    IF n = 0 THEN {<< >>}
    ELSE Concats(n - 1) \cup {p \o x : p \in Concats(n - 1), x \in ChunkPieces}

ChunkTexts == Concats(MaxPieces)

\* The chunkers a caller makes: SemanticChunker(chunk_size, chunk_overlap,
\* min_chunk_size) of text_chunker.py and SemanticChunker(max_chunk_size,
\* min_chunk_size, overlap_sentences) of semantic_chunker.py, with sizes of
\* the order of the texts.
TextConfigs == [chunk_size : {4, 6}, chunk_overlap : {1, 3}, min_chunk_size : {0, 3}]
SemConfigs == [max_chunk_size : {4, 6}, min_chunk_size : {0, 3}, overlap_sentences : {1, 2}]

\* Extraction results have at most MaxPages pages, numbered from 1, with
\* these texts; overlap_pages is in 0..MaxOverlapPages.
MaxPages == 3
MaxOverlapPages == 2
PageTexts ==
    { << >>, <<" ">>, <<"a", ".">>, <<"b", "b", ".", " ", "a", ".">>,
      <<"a", ".", "\n", "\n", "b", "b", ".">> }
Documents ==
    UNION {{[i \in 1..n |-> Page(i, f[i])] : f \in [1..n -> PageTexts]} :
           n \in 0..MaxPages}
DocId == "d1"

RetChunks(xs) == [NoRet EXCEPT !.kind = "chunks", !.items = xs]

\* A call of a chunker: the thread runs it from its first line to its return.
ChunkerCall(t, c, out) ==
    /\ Begin(t, c @@ NoCall)
    /\ loc' = [loc EXCEPT ![t] = [trace |-> out.trace] @@ NoLoc]
    /\ Finish(t, RetChunks(out.chunks))
    /\ UNCHANGED <<indexes, order, lists, now, built>>

\* chunker.chunk_text(text) of text_chunker.py
TextChunkTextCall(t, txt, cfg) ==
    ChunkerCall(t, [op |-> "text_chunk_text", text |-> txt, cfg |-> cfg],
                TextChunkText(txt, NoMetadata, cfg))

\* chunker.chunk_text(text) of semantic_chunker.py
SemChunkTextCall(t, txt, cfg) ==
    ChunkerCall(t, [op |-> "sem_chunk_text", text |-> txt, cfg |-> cfg],
                SemChunkText(txt, NoMetadata, cfg))

\* chunker.chunk_pdf_pages(extraction_result, page_wise=True, overlap_pages)
TextPageWiseCall(t, pages, overlap_pages) ==
    ChunkerCall(t, [op |-> "text_page_wise", pages |-> pages,
                    overlap_pages |-> overlap_pages],
                [chunks |-> TextPageWise(DocId, pages, overlap_pages),
                 trace |-> << >>])

\* chunker.chunk_pdf_pages(extraction_result) of text_chunker.py
TextCharacterBasedCall(t, pages, cfg) ==
    ChunkerCall(t, [op |-> "text_character_based", pages |-> pages, cfg |-> cfg],
                [chunks |-> TextCharacterBased(DocId, pages, cfg),
                 trace |-> << >>])

\* chunker.chunk_pdf_pages(extraction_result, strategy="page_wise")
SemPageWiseCall(t, pages, cfg) ==
    ChunkerCall(t, [op |-> "sem_page_wise", pages |-> pages, cfg |-> cfg],
                [chunks |-> SemPageWise(DocId, pages, cfg), trace |-> << >>])

\* chunker.chunk_pdf_pages(extraction_result) of semantic_chunker.py
SemSemanticCall(t, pages, cfg) ==
    ChunkerCall(t, [op |-> "sem_semantic", pages |-> pages, cfg |-> cfg],
                [chunks |-> SemSemantic(DocId, pages, cfg), trace |-> << >>])

\* ------------------------------------------------------------ environment

\* The caller takes the result; the thread is free for its next call.
Return(t) ==
    /\ pc[t] = "done"
    /\ pc' = [pc EXCEPT ![t] = "idle"]
    /\ call' = [call EXCEPT ![t] = NoCall]
    /\ loc' = [loc EXCEPT ![t] = NoLoc]
    /\ ret' = [ret EXCEPT ![t] = NoRet]
    /\ UNCHANGED <<indexes, order, lists, now, built>>

\* An hour passes.
Tick ==
    /\ now < MaxTime
    /\ now' = now + 1
    /\ UNCHANGED <<indexes, order, lists, pc, call, loc, ret, built>>

\* A caller that kept the list it passed to build_index removes its last
\* chunk or appends one; the entry's 'chunks' is that same list.
CallerMutate(l) ==
    /\ \E s \in DOMAIN indexes : indexes[s].chunks = l
    /\ \/ /\ lists[l] # << >>
          /\ lists' = [lists EXCEPT ![l] = SubSeq(@, 1, Len(@) - 1)]
       \/ /\ Len(lists[l]) < MaxListLen
          /\ lists' = [lists EXCEPT ![l] = Append(@, ExtraChunk)]
    /\ UNCHANGED <<indexes, order, now, pc, call, loc, ret, built>>

\* ----------------------------------------------------------- specification

\* The steps within a call, and the return to the caller.
Continue(t) ==
    \/ BuildPublish(t)
    \/ SearchRead(t)
    \/ SearchScore(t)
    \/ StatsRead(t)
    \/ DeleteDel(t)
    \/ CleanupIter(t)
    \/ CleanupCheck(t)
    \/ CleanupDel(t)
    \/ Return(t)

\* Threads t1 and t2 call build_index, search, delete_index and
\* cleanup_old_indexes, their steps interleaved.
Step(t) ==
    \/ \E s \in Sessions, l \in ListIds :
          /\ l \in ListsFor(s)
          /\ \/ BuildEmpty(t, s, l)
             \/ BuildFail(t, s, l)
             \/ BuildConstruct(t, s, l)
    \/ \E s \in Sessions, q \in {QDogCat, TxtPunct} :
          \/ SearchMissing(t, s, q, RaceTopK)
          \/ SearchFound(t, s, q, RaceTopK)
    \/ \E s \in Sessions : DeleteMissing(t, s) \/ DeleteFound(t, s)
    \/ CleanupBegin(t, RaceMaxAge)
    \/ BuildPublish(t)
    \/ SearchRead(t)
    \/ SearchScore(t)
    \/ DeleteDel(t)
    \/ CleanupIter(t)
    \/ CleanupCheck(t)
    \/ CleanupDel(t)
    \/ Return(t)

Next == Tick \/ \E t \in Threads : Step(t)

Spec == Init /\ [][Next]_vars

\* One caller, one call after the other, over every query, top_k and
\* max_age_hours of the model.
StepSeq(t) ==
    \/ \E s \in Sessions, l \in ListIds :
          /\ l \in ListsFor(s)
          /\ \/ BuildEmpty(t, s, l)
             \/ BuildFail(t, s, l)
             \/ BuildConstruct(t, s, l)
    \/ \E s \in Sessions, q \in Queries, k \in 0..MaxTopK :
          \/ SearchMissing(t, s, q, k)
          \/ SearchFound(t, s, q, k)
    \/ \E s \in Sessions : StatsMissing(t, s) \/ StatsFound(t, s)
    \/ \E s \in Sessions : DeleteMissing(t, s) \/ DeleteFound(t, s)
    \/ \E m \in 0..MaxAge : CleanupBegin(t, m)
    \/ Continue(t)

NextSeq == Tick \/ StepSeq("t1")

SpecSeq == Init /\ [][NextSeq]_vars

\* One caller that keeps the lists it passed to build_index and changes them
\* between its calls.
StepCaller(t) ==
    \/ \E s \in Sessions, l \in {"A1", "B1", "Z"} :
          /\ l \in ListsFor(s)
          /\ \/ BuildEmpty(t, s, l)
             \/ BuildFail(t, s, l)
             \/ BuildConstruct(t, s, l)
    \/ \E s \in Sessions, q \in {QDogCat}, k \in {MaxTopK} :
          \/ SearchMissing(t, s, q, k)
          \/ SearchFound(t, s, q, k)
    \/ \E s \in Sessions : DeleteMissing(t, s) \/ DeleteFound(t, s)
    \/ BuildPublish(t)
    \/ SearchRead(t)
    \/ SearchScore(t)
    \/ DeleteDel(t)
    \/ Return(t)

NextCaller ==
    \/ StepCaller("t1")
    \/ \E l \in ListIds : pc["t1"] = "idle" /\ CallerMutate(l)

SpecCaller == Init /\ [][NextCaller]_vars

\* One caller works on session s1 alone: it builds the index from the three
\* sentences, searches it with every query and top_k of the model, asks for
\* its stats and deletes it.
StepScenario(t) ==
    \/ BuildEmpty(t, ScenarioSession, "E")
    \/ BuildConstruct(t, ScenarioSession, "S1")
    \/ \E q \in Queries, k \in 0..MaxTopK :
          \/ SearchMissing(t, ScenarioSession, q, k)
          \/ SearchFound(t, ScenarioSession, q, k)
    \/ StatsMissing(t, ScenarioSession)
    \/ StatsFound(t, ScenarioSession)
    \/ DeleteMissing(t, ScenarioSession)
    \/ DeleteFound(t, ScenarioSession)
    \/ BuildPublish(t)
    \/ SearchRead(t)
    \/ SearchScore(t)
    \/ StatsRead(t)
    \/ DeleteDel(t)
    \/ Return(t)

NextScenario == Tick \/ StepScenario("t1")

SpecScenario == Init /\ [][NextScenario]_vars

\* One caller builds the indexes of A and B, deletes them and runs hybrid
\* searches with every weight, rrf_k and top_k of the model; the vector store
\* answers or fails.
StepFusion(t) ==
    \/ \E s \in Sessions, l \in {"A2", "N", "H", "B1"} :
          /\ (s = "B") = (l = "B1")
          /\ BuildConstruct(t, s, l)
    \/ \E s \in Sessions, q \in {QCat, QDogCat, TxtPunct}, k \in 0..MaxTopK,
          w \in Weights, rk \in RrfKs :
          \/ HybridMissing(t, s, q, k, w[1], w[2], rk)
          \/ HybridFound(t, s, q, k, w[1], w[2], rk)
    \/ \E s \in Sessions : DeleteMissing(t, s) \/ DeleteFound(t, s)
    \/ BuildPublish(t)
    \/ SearchRead(t)
    \/ SearchScore(t)
    \/ HybridVector(t)
    \/ HybridFuse(t)
    \/ DeleteDel(t)
    \/ (call[t].op = "hybrid" => ret[t].kind = "fused") /\ Return(t)

NextFusion == StepFusion("t1")

SpecFusion == Init /\ [][NextFusion]_vars

\* One caller builds the index of A from a document of three chunks or from
\* the document of eleven, and runs hybrid searches that ask for fewer results
\* than the keyword search inside returns at most, for as many and for one
\* more.
StepPool(t) ==
    \/ \E l \in {"A2", "P"} : BuildConstruct(t, "A", l)
    \/ \E q \in {QCat, QDogCat}, k \in {MaxTopK, PoolSize, PoolSize + 1},
          w \in Weights, rk \in RrfKs :
          \/ HybridMissing(t, "A", q, k, w[1], w[2], rk)
          \/ HybridFound(t, "A", q, k, w[1], w[2], rk)
    \/ DeleteFound(t, "A")
    \/ BuildPublish(t)
    \/ SearchRead(t)
    \/ SearchScore(t)
    \/ HybridVector(t)
    \/ HybridFuse(t)
    \/ DeleteDel(t)
    \/ (call[t].op = "hybrid" => ret[t].kind = "fused") /\ Return(t)

NextPool == StepPool("t1")

SpecPool == Init /\ [][NextPool]_vars

\* One caller chunks texts with both chunkers and every configuration of
\* the model.
StepChunk(t) ==
    \/ /\ pc[t] = "idle"
       /\ \E txt \in ChunkTexts, cfg \in TextConfigs :
             TextChunkTextCall(t, txt, cfg)
    \/ /\ pc[t] = "idle"
       /\ \E txt \in ChunkTexts, cfg \in SemConfigs :
             SemChunkTextCall(t, txt, cfg)
    \/ Return(t)

NextChunk == StepChunk("t1")

SpecChunk == Init /\ [][NextChunk]_vars

\* One caller chunks extraction results page by page, with both chunkers and
\* both strategies of each.
StepPages(t) ==
    \/ /\ pc[t] = "idle"
       /\ \E pages \in Documents, o \in 0..MaxOverlapPages :
             TextPageWiseCall(t, pages, o)
    \/ /\ pc[t] = "idle"
       /\ \E pages \in Documents, cfg \in TextConfigs :
             TextCharacterBasedCall(t, pages, cfg)
    \/ /\ pc[t] = "idle"
       /\ \E pages \in Documents, cfg \in SemConfigs :
             SemPageWiseCall(t, pages, cfg)
    \/ /\ pc[t] = "idle"
       /\ \E pages \in Documents, cfg \in SemConfigs :
             SemSemanticCall(t, pages, cfg)
    \/ Return(t)

NextPages == StepPages("t1")

SpecPages == Init /\ [][NextPages]_vars

\* ------------------------------------------------------------------ claims

SearchDone(t) == pc[t] = "done" /\ call[t].op = "search"

\* The search of thread t found its entry and computed a result from it.
SearchScored(t) == SearchDone(t) /\ loc[t].chunks # "" /\ loc[t].caught = ""

Items(t) == ret[t].items

\* C1: whatever builds, searches, deletes and cleanups came before, a search
\* of session s returns only chunks of session s, also while another session
\* with the same vocabulary is indexed.
C1_SessionIsolation ==
    \A t \in Threads :
        SearchDone(t) =>
            \A r \in 1..Len(Items(t)) : Items(t)[r].session_id = call[t].sid

\* A search of A returned chunks while B was indexed too.
C1_Witness ==
    \E t \in Threads :
        /\ SearchDone(t)
        /\ call[t].sid = "A"
        /\ Items(t) # << >>
        /\ "B" \in DOMAIN indexes

\* C2: the scorer and the chunk list a search uses come from one build: the
\* scorer is the scorer of exactly that chunk list, also when a build of the
\* same session published in the middle of the search.
C2_OneBuild ==
    \A t \in Threads :
        (SearchDone(t) /\ loc[t].chunks # "") =>
            /\ loc[t].bm25 = BM25Okapi(TokenizeAll(lists[loc[t].chunks]))
            /\ loc[t].bm25 = loc[t].index_data.index
            /\ loc[t].chunks = loc[t].index_data.chunks

\* A search finished on an entry that a build replaced meanwhile.
C2_Witness ==
    \E t \in Threads :
        /\ SearchScored(t)
        /\ call[t].sid \in DOMAIN indexes
        /\ indexes[call[t].sid].chunks # loc[t].index_data.chunks

\* C3: a build_index with an empty list returns False and changes nothing in
\* the registry: no entry appears and the session's earlier entry stays as
\* it was.
C3_EmptyBuildRejected ==
    [][\A t \in Threads :
          (/\ pc[t] = "idle"
           /\ pc'[t] = "done"
           /\ call'[t].op = "build"
           /\ lists[call'[t].list] = << >>)
          => (ret'[t] = RetBool(FALSE) /\ indexes' = indexes /\ order' = order)]_vars

\* An empty build was refused for a session that has an index.
C3_Witness ==
    \E t \in Threads :
        /\ pc[t] = "done"
        /\ call[t].op = "build"
        /\ lists[call[t].list] = << >>
        /\ ret[t] = RetBool(FALSE)
        /\ call[t].sid \in DOMAIN indexes

\* C4: the entry of a session is the result of its last successful build and
\* of nothing else: its chunks are that build's list, num_chunks is its
\* length, corpus and scorer are those of that list alone, and a search
\* returns only chunks of the list it read.
C4_WholesaleReplace ==
    /\ \A s \in DOMAIN indexes :
          /\ indexes[s].chunks = built[s].list
          /\ indexes[s].num_chunks = Len(lists[built[s].list])
          /\ indexes[s].tokenized_corpus = TokenizeAll(lists[built[s].list])
          /\ indexes[s].index = BM25Okapi(TokenizeAll(lists[built[s].list]))
    /\ \A t \in Threads :
          SearchScored(t) =>
              \A r \in 1..Len(Items(t)) :
                  \E i \in 1..Len(lists[loc[t].chunks]) :
                      Items(t)[r] = Annotate(lists[loc[t].chunks][i],
                                             Items(t)[r].bm25_score)

\* Session A was built from A1 and then from A2: a search still holds the
\* entry of A1 while the registry holds that of A2.
C4_Witness ==
    /\ "A" \in DOMAIN indexes
    /\ indexes["A"].chunks = "A2"
    /\ \E t \in Threads :
          call[t].op = "search" /\ loc[t].index_data.chunks = "A1"

\* C5, as claimed: results are in descending score order and of two results
\* of equal score the one with the lower chunk_id comes first.
C5_TiesByChunkId ==
    \A t \in Threads :
        SearchScored(t) =>
            \A r1, r2 \in 1..Len(Items(t)) :
                r1 < r2 =>
                    /\ Items(t)[r1].bm25_score >= Items(t)[r2].bm25_score
                    /\ Items(t)[r1].bm25_score = Items(t)[r2].bm25_score
                           => Items(t)[r1].chunk_id <= Items(t)[r2].chunk_id

\* C5, amended: results are in descending score order and of two results of
\* equal score the one that stands earlier in the indexed list comes first.
C5_TiesByPosition ==
    \A t \in Threads :
        SearchScored(t) =>
            \E pos \in [1..Len(Items(t)) -> 1..Len(lists[loc[t].chunks])] :
                /\ \A r \in 1..Len(Items(t)) :
                      Items(t)[r] = Annotate(lists[loc[t].chunks][pos[r]],
                                             Items(t)[r].bm25_score)
                /\ \A r1, r2 \in 1..Len(Items(t)) :
                      r1 < r2 =>
                          \/ Items(t)[r1].bm25_score > Items(t)[r2].bm25_score
                          \/ /\ Items(t)[r1].bm25_score = Items(t)[r2].bm25_score
                             /\ pos[r1] < pos[r2]

\* A search returned two chunks of equal score.
C5_Witness ==
    \E t \in Threads :
        /\ SearchScored(t)
        /\ \E r \in 1..(Len(Items(t)) - 1) :
              Items(t)[r].bm25_score = Items(t)[r + 1].bm25_score

\* C6: a search with a query of at least one token on an index of n chunks
\* returns min(top_k, n) chunks, each a chunk of the index with its BM25 score
\* and the method tag, whatever the sign of the score.
C6_TopKCount ==
    \A t \in Threads :
        (SearchScored(t) /\ Tokenize(call[t].query) # << >>) =>
            LET n == loc[t].index_data.num_chunks
                scores == GetScores(loc[t].bm25, Tokenize(call[t].query))
            IN /\ Len(Items(t)) = IF call[t].top_k < n THEN call[t].top_k ELSE n
               /\ \A r \in 1..Len(Items(t)) :
                     /\ Items(t)[r].search_method = "bm25"
                     /\ \E i \in 1..n :
                           Items(t)[r] = Annotate(lists[loc[t].chunks][i], scores[i])

\* A search returned a chunk of negative score.
C6_Witness ==
    \E t \in Threads :
        /\ SearchScored(t)
        /\ \E r \in 1..Len(Items(t)) : Items(t)[r].bm25_score < 0

\* C7: search hands its caller a list and build_index a boolean in every
\* interleaving; neither lets an exception through: a search that caught one
\* returns the empty list and a build that caught one returns False.
C7_NeverRaises ==
    \A t \in Threads :
        pc[t] = "done" =>
            /\ call[t].op = "search" =>
                   /\ ret[t].kind = "list"
                   /\ loc[t].caught # "" => ret[t] = RetList(<< >>)
            /\ call[t].op = "build" =>
                   /\ ret[t].kind = "bool"
                   /\ loc[t].caught # "" => ret[t] = RetBool(FALSE)

\* A search lost its entry to a delete between the membership test and the
\* read, and returned the empty list.
C7_Witness ==
    \E t \in Threads :
        /\ SearchDone(t)
        /\ loc[t].caught = "KeyError"
        /\ ret[t] = RetList(<< >>)

\* The search of thread t found no index for its session.
IndexMissing(t) ==
    SearchDone(t) /\ loc[t].chunks = "" /\ loc[t].caught = ""

\* The search of thread t found an index and its query has no token.
EmptyInput(t) ==
    SearchScored(t) /\ Tokenize(call[t].query) = << >>

\* C8: what a search returns for a session without index differs from what a
\* search returns for a query without tokens.
C8_MissingDistinct ==
    \A t, u \in Threads :
        (IndexMissing(t) /\ EmptyInput(u)) => ret[t] # ret[u]

\* C9: created_at is the time of the session's last successful build, which
\* no search or stats call moves; a cleanup that ran to its end removed the
\* entries whose age exceeded max_age_hours and kept the others.
C9_AgeFromBuild ==
    /\ \A s \in DOMAIN indexes : indexes[s].created_at = built[s].at
    /\ \A t \in Threads :
          (pc[t] = "done" /\ call[t].op = "cleanup" /\ ret[t].kind = "none") =>
              /\ \A i \in 1..Len(loc[t].removed) :
                    loc[t].now_c - loc[t].removed[i][2] > call[t].max_age
              /\ \A s \in DOMAIN indexes :
                    ~(loc[t].now_c - built[s].at > call[t].max_age)

\* A cleanup removed one session's entry and kept another's.
C9_Witness ==
    \E t \in Threads :
        /\ pc[t] = "done"
        /\ call[t].op = "cleanup"
        /\ loc[t].removed # << >>
        /\ DOMAIN indexes # {}

\* C10: the chunk sequence of an entry is the list as it was passed to the
\* build and is as long as the tokenized corpus, whatever the caller does to
\* its list afterwards.
C10_Snapshot ==
    \A s \in DOMAIN indexes :
        /\ lists[indexes[s].chunks] = built[s].passed
        /\ Len(lists[indexes[s].chunks]) = Len(indexes[s].tokenized_corpus)

\* C11: a step of a build_index, search or delete_index call for one session
\* leaves every other session as it was: present or absent as before, and its
\* entry (scorer, chunk list, corpus, created_at, num_chunks) and the chunks
\* of its list unchanged, whatever the other thread is in the middle of.
C11_OtherSessionsUntouched ==
    [][\A t \in Threads :
          (/\ pc'[t] # pc[t]
           /\ call'[t].op \in {"build", "search", "delete"})
          => \A s \in Sessions \ {call'[t].sid} :
                 /\ (s \in DOMAIN indexes') = (s \in DOMAIN indexes)
                 /\ s \in DOMAIN indexes =>
                        /\ indexes'[s] = indexes[s]
                        /\ lists'[indexes[s].chunks] = lists[indexes[s].chunks]]_vars

\* A delete_index of B removed B's entry while a search of A was between its
\* read of the registry and its scoring, and A's entry is in place.
C11_Witness ==
    \E t, u \in Threads :
        /\ pc[t] = "done"
        /\ call[t].op = "delete"
        /\ call[t].sid = "B"
        /\ ret[t] = RetBool(TRUE)
        /\ pc[u] = "s_score"
        /\ call[u].sid = "A"
        /\ "A" \in DOMAIN indexes
        /\ indexes["A"] = loc[u].index_data

\* Thread t ended a successful build_index.
BuildDone(t) ==
    pc[t] = "done" /\ call[t].op = "build" /\ ret[t] = RetBool(TRUE)

\* C12: when two builds of one session overlapped (t stored while u was
\* waiting to store, so u stored last) and both have returned, the entry is
\* the one u made: u's scorer, u's list, u's corpus and the length of u's
\* list, the scorer being the scorer of that corpus.
C12_LastWriteWins ==
    \A t, u \in Threads :
        (/\ t # u
         /\ BuildDone(t)
         /\ BuildDone(u)
         /\ call[t].sid = call[u].sid
         /\ loc[t].overlap)
        => /\ call[u].sid \in DOMAIN indexes
           /\ indexes[call[u].sid] =
                  Entry(loc[u].bm25, call[u].list, loc[u].tokenized_corpus,
                        built[call[u].sid].at, Len(lists[call[u].list]))
           /\ loc[u].tokenized_corpus = TokenizeAll(lists[call[u].list])
           /\ loc[u].bm25 = BM25Okapi(loc[u].tokenized_corpus)

\* Two overlapping builds of session A from different lists have both
\* returned True.
C12_Witness ==
    \E t, u \in Threads :
        /\ t # u
        /\ BuildDone(t)
        /\ BuildDone(u)
        /\ call[t].sid = "A"
        /\ call[u].sid = "A"
        /\ call[t].list # call[u].list
        /\ loc[t].overlap
        /\ ~loc[u].overlap

\* The search of the scenario: search("s1", "cat", top_k=2) has returned from
\* an index built from the three sentences.
CatSearched(t) ==
    /\ SearchScored(t)
    /\ call[t].sid = ScenarioSession
    /\ call[t].query = QCat
    /\ call[t].top_k = 2
    /\ loc[t].chunks = "S1"

\* C13, as claimed: the search returns the first and the third sentence in a
\* list of at most two chunks.
C13_CatAndCats ==
    \A t \in Threads :
        CatSearched(t) =>
            /\ Len(Items(t)) <= 2
            /\ \E r \in 1..Len(Items(t)) : Items(t)[r].text = TxtCatSat
            /\ \E r \in 1..Len(Items(t)) : Items(t)[r].text = TxtCatsDogs

\* C13, amended: the search returns two chunks: the first sentence, the only
\* one with the token "cat", with a positive score, and then the second
\* sentence with score 0, which stands before the third in the list; the
\* third sentence, whose token is "cats", is not returned.
C13_CatOnly ==
    \A t \in Threads :
        CatSearched(t) =>
            /\ Len(Items(t)) = 2
            /\ Items(t)[1].text = TxtCatSat
            /\ Items(t)[1].chunk_id = 0
            /\ Items(t)[1].bm25_score > 0
            /\ Items(t)[2].text = TxtDogRan
            /\ Items(t)[2].chunk_id = 1
            /\ Items(t)[2].bm25_score = 0

\* The search of the scenario has returned.
C13_Witness ==
    \E t \in Threads : CatSearched(t) /\ Items(t) # << >>

\* A hybrid search of thread t has returned its fused list.
HybridDone(t) ==
    pc[t] = "done" /\ call[t].op = "hybrid" /\ ret[t].kind = "fused"

\* The identities of a result list, and whether they are pairwise distinct.
IdsOf(results) == {GetChunkId(results[i]) : i \in 1..Len(results)}
DistinctIds(results) ==
    \A i, j \in 1..Len(results) :
        i # j => GetChunkId(results[i]) # GetChunkId(results[j])

\* The 1-indexed position of identity id in a list that holds it once.
RankIn(results, id) ==
    CHOOSE r \in 1..Len(results) : GetChunkId(results[r]) = id

\* weight / (k + rank) for an identity of the list, 0 for any other; the
\* weight is in tenths.
Contribution(results, id, w, rk) ==
    IF id \in IdsOf(results) THEN Frac(w, 10 * (rk + RankIn(results, id)))
    ELSE Frac(0, 1)

ClaimedId(chunk) ==
    IF "id" \in DOMAIN chunk THEN chunk.id
    ELSE IF "chunk_id" \in DOMAIN chunk /\ "doc_id" \in DOMAIN chunk
    THEN chunk.doc_id \o "_" \o ToString(chunk.chunk_id)
    ELSE ToString(HashOf(IF "text" \in DOMAIN chunk THEN chunk.text ELSE << >>))

\* C15: the fusion makes one entry per identity, the identity being the id,
\* else the composite of doc_id and chunk_id when both are present, else the
\* hash of the text: two results share an entry exactly when these are equal.
C15_IdentityPriority ==
    \A t \in Threads :
        HybridDone(t) =>
            LET all == loc[t].bm25_results \o loc[t].vector_results
            IN /\ Len(loc[t].fusion_map) =
                      Cardinality({ClaimedId(all[i]) : i \in 1..Len(all)})
               /\ \A i, j \in 1..Len(all) :
                      (GetChunkId(all[i]) = GetChunkId(all[j]))
                          = (ClaimedId(all[i]) = ClaimedId(all[j]))

\* C16: the list the fusion returns is in descending order of fused score,
\* holds no identity twice and has min(top_k, number of distinct identities
\* of both input lists) chunks.
C16_SortedUniqueTopK ==
    \A t \in Threads :
        HybridDone(t) =>
            LET n == Cardinality(IdsOf(loc[t].bm25_results)
                                     \cup IdsOf(loc[t].vector_results))
            IN /\ Len(Items(t)) = IF call[t].h_top_k < n THEN call[t].h_top_k ELSE n
               /\ DistinctIds(Items(t))
               /\ \A r1, r2 \in 1..Len(Items(t)) :
                     r1 < r2 => ~FracLess(Items(t)[r1].hybrid_score,
                                          Items(t)[r2].hybrid_score)

\* A fusion of lists with more identities than top_k, one of them repeated
\* in the keyword list, returned chunks of different scores.
C16_Witness ==
    \E t \in Threads :
        /\ HybridDone(t)
        /\ ~DistinctIds(loc[t].bm25_results)
        /\ Len(Items(t)) = 2
        /\ Len(loc[t].fusion_map) > 2
        /\ FracLess(Items(t)[2].hybrid_score, Items(t)[1].hybrid_score)

\* The returned chunk was found in both lists.
InBoth(c) ==
    c.ranking_details.bm25_rank # None /\ c.ranking_details.vector_rank # None

\* C17, as claimed: of two returned chunks of equal fused score, one found in
\* both lists stands before one found in one list only, and of two that are
\* alike in that and are in the keyword list the one of lower keyword rank
\* stands first.
C17_TieBothFirst ==
    \A t \in Threads :
        HybridDone(t) =>
            \A r1, r2 \in 1..Len(Items(t)) :
                (r1 < r2 /\ Items(t)[r1].hybrid_score = Items(t)[r2].hybrid_score)
                => LET c1 == Items(t)[r1]
                       c2 == Items(t)[r2]
                   IN /\ ~(InBoth(c2) /\ ~InBoth(c1))
                      /\ (/\ InBoth(c1) = InBoth(c2)
                          /\ c1.ranking_details.bm25_rank # None
                          /\ c2.ranking_details.bm25_rank # None)
                         => c1.ranking_details.bm25_rank
                                < c2.ranking_details.bm25_rank

\* The first position of identity id in a list that holds it.
FirstIn(results, id) ==
    CHOOSE r \in 1..Len(results) :
        /\ GetChunkId(results[r]) = id
        /\ \A q \in 1..(r - 1) : GetChunkId(results[q]) # id

\* C17, amended: two returned chunks of equal fused score stand in the order
\* in which their identities entered the fusion: chunks of the keyword list
\* first, in the order of the keyword list, then chunks of the vector list
\* alone, in the order of the vector list; being in both lists plays no part.
C17_TieInsertionOrder ==
    \A t \in Threads :
        HybridDone(t) =>
            \A r1, r2 \in 1..Len(Items(t)) :
                (r1 < r2 /\ Items(t)[r1].hybrid_score = Items(t)[r2].hybrid_score)
                => LET kw == loc[t].bm25_results
                       vec == loc[t].vector_results
                       id1 == GetChunkId(Items(t)[r1])
                       id2 == GetChunkId(Items(t)[r2])
                   IN IF id1 \in IdsOf(kw)
                      THEN id2 \in IdsOf(kw) => FirstIn(kw, id1) < FirstIn(kw, id2)
                      ELSE /\ id2 \notin IdsOf(kw)
                           /\ FirstIn(vec, id1) < FirstIn(vec, id2)

\* With positive weights, a chunk of the keyword list alone and a chunk of
\* both lists were returned with one and the same fused score.
C17_Witness ==
    \E t \in Threads :
        /\ HybridDone(t)
        /\ call[t].bm25_weight > 0
        /\ call[t].vector_weight > 0
        /\ \E r1, r2 \in 1..Len(Items(t)) :
              /\ r1 < r2
              /\ Items(t)[r1].hybrid_score = Items(t)[r2].hybrid_score
              /\ ~InBoth(Items(t)[r1])
              /\ InBoth(Items(t)[r2])

\* C18, as claimed: whatever the weights and k, the total of a fused item of
\* both lists is strictly greater than what its keyword rank alone and what
\* its vector rank alone would give it.
C18_BothStrictlyGreater ==
    \A t \in Threads :
        HybridDone(t) =>
            \A p \in 1..Len(loc[t].fusion_map) :
                LET item == loc[t].fusion_map[p]
                IN (item.bm25_rank # None /\ item.vector_rank # None) =>
                       /\ FracLess(Frac(call[t].bm25_weight,
                                        10 * (call[t].rrf_k + item.bm25_rank)),
                                   item.total_score)
                       /\ FracLess(Frac(call[t].vector_weight,
                                        10 * (call[t].rrf_k + item.vector_rank)),
                                   item.total_score)

\* C18, amended: that holds when both weights are positive (and k + rank is
\* positive); a weight of zero leaves the total equal to the other
\* contribution.
C18_BothGreaterPositive ==
    \A t \in Threads :
        (HybridDone(t) /\ call[t].bm25_weight > 0 /\ call[t].vector_weight > 0) =>
            \A p \in 1..Len(loc[t].fusion_map) :
                LET item == loc[t].fusion_map[p]
                IN (item.bm25_rank # None /\ item.vector_rank # None) =>
                       /\ FracLess(Frac(call[t].bm25_weight,
                                        10 * (call[t].rrf_k + item.bm25_rank)),
                                   item.total_score)
                       /\ FracLess(Frac(call[t].vector_weight,
                                        10 * (call[t].rrf_k + item.vector_rank)),
                                   item.total_score)

\* A fusion with positive weights made an item of both lists.
C18_Witness ==
    \E t \in Threads :
        /\ HybridDone(t)
        /\ call[t].bm25_weight > 0
        /\ call[t].vector_weight > 0
        /\ \E p \in 1..Len(loc[t].fusion_map) :
              /\ loc[t].fusion_map[p].bm25_rank # None
              /\ loc[t].fusion_map[p].vector_rank # None

\* The fusion of the scenario: keyword list [chunkA, chunkB], vector list
\* [chunkB, chunkC], weights 0.5 and 0.5, k = 60, top_k = 3.
AbcFused(t) ==
    /\ HybridDone(t)
    /\ [i \in 1..Len(loc[t].bm25_results) |-> GetChunkId(loc[t].bm25_results[i])]
           = <<"dB_0", "dB_1">>
    /\ [i \in 1..Len(loc[t].vector_results) |-> GetChunkId(loc[t].vector_results[i])]
           = <<"dB_1", "dB_7">>
    /\ call[t].bm25_weight = 5
    /\ call[t].vector_weight = 5
    /\ call[t].rrf_k = 60
    /\ call[t].h_top_k = 3

\* C19: that fusion returns chunkB with score 0.5/62 + 0.5/61, then chunkA
\* with 0.5/61, then chunkC with 0.5/62.
C19_AbcScenario ==
    \A t \in Threads :
        AbcFused(t) =>
            /\ [r \in 1..Len(Items(t)) |-> GetChunkId(Items(t)[r])]
                   = <<"dB_1", "dB_0", "dB_7">>
            /\ Items(t)[1].hybrid_score = FracAdd(Frac(5, 620), Frac(5, 610))
            /\ Items(t)[2].hybrid_score = Frac(5, 610)
            /\ Items(t)[3].hybrid_score = Frac(5, 620)

\* The fusion of the scenario has returned three chunks.
C19_Witness ==
    \E t \in Threads : AbcFused(t) /\ Len(Items(t)) = 3

\* The returned chunk c is result x with the marks of the fusion: every key
\* of x but search_method has kept its value.
SameChunk(c, x) ==
    \A f \in DOMAIN x \ {"search_method"} : f \in DOMAIN c /\ c[f] = x[f]

\* The returned list is the first top_k results of the list xs, in order.
IsPrefixOf(t, xs) ==
    /\ Len(Items(t)) = IF call[t].h_top_k < Len(xs) THEN call[t].h_top_k ELSE Len(xs)
    /\ \A r \in 1..Len(Items(t)) : SameChunk(Items(t)[r], xs[r])

\* The vector store failed and the session has a keyword index.
VectorDown(t) == HybridDone(t) /\ loc[t].vector_failed /\ loc[t].chunks # ""

\* The session had no keyword index and the vector store answered.
KeywordDown(t) ==
    /\ HybridDone(t)
    /\ ~loc[t].vector_failed
    /\ loc[t].chunks = ""
    /\ loc[t].caught = ""

\* C20, as claimed: when the vector store fails the search returns the first
\* top_k keyword results in their order, and when the session has no keyword
\* index it returns the first top_k vector results in their order.
C20_DegradeOneSource ==
    \A t \in Threads :
        /\ VectorDown(t) => IsPrefixOf(t, loc[t].bm25_results)
        /\ KeywordDown(t) => IsPrefixOf(t, loc[t].vector_results)

\* C20, amended: that holds when the results of the source that is left have
\* pairwise distinct identities; results of equal identity are fused into one.
C20_DegradeDistinct ==
    \A t \in Threads :
        /\ (VectorDown(t) /\ DistinctIds(loc[t].bm25_results))
               => IsPrefixOf(t, loc[t].bm25_results)
        /\ (KeywordDown(t) /\ DistinctIds(loc[t].vector_results))
               => IsPrefixOf(t, loc[t].vector_results)

\* The vector store failed and the search returned two of three keyword
\* results.
C20_Witness ==
    \E t \in Threads :
        /\ VectorDown(t)
        /\ DistinctIds(loc[t].bm25_results)
        /\ Len(loc[t].bm25_results) = 3
        /\ Len(Items(t)) = 2
        /\ call[t].bm25_weight > 0

\* The vector store failed and the session has no keyword index.
BothDown(t) ==
    /\ HybridDone(t)
    /\ loc[t].vector_failed
    /\ loc[t].chunks = ""
    /\ loc[t].caught = ""

\* C21: when the vector store fails and the session has no keyword index, the
\* caller of the hybrid search gets an outcome that differs from the one it
\* gets when both sources answer without a match, which is the fusion of two
\* empty lists.
C21_UnavailableDistinct ==
    \A t \in Threads :
        BothDown(t) =>
            ret[t] # RetFused(ReciprocalRankFusion(
                         << >>, << >>, call[t].h_top_k, call[t].bm25_weight,
                         call[t].vector_weight, call[t].rrf_k))

\* C22: when the vector store fails and the keyword index supplies the
\* results, no returned chunk carries the search_method of a fusion of both
\* sources, 'hybrid'.
C22_KeywordOnlyMethod ==
    \A t \in Threads :
        (VectorDown(t) /\ loc[t].bm25_results # << >>) =>
            \A r \in 1..Len(Items(t)) : Items(t)[r].search_method # "hybrid"

\* C23: a hybrid search asks the keyword index for more candidates than the
\* top_k it was called with, and when the index of the session holds at least
\* top_k chunks of pairwise distinct identity and the query has a token, it
\* returns top_k results.
C23_PoolLargerThanTopK ==
    \A t \in Threads :
        HybridDone(t) =>
            /\ call[t].top_k > call[t].h_top_k
            /\ (/\ loc[t].chunks # ""
                /\ Len(lists[loc[t].chunks]) >= call[t].h_top_k
                /\ DistinctIds(lists[loc[t].chunks])
                /\ Tokenize(call[t].query) # << >>)
               => Len(Items(t)) = call[t].h_top_k

\* The vector result v is the match of the vector stored for the keyword
\* result b: b carries doc_id and chunk_id and v the id store_chunks made of
\* them.
SameStored(b, v) ==
    /\ "doc_id" \in DOMAIN b
    /\ "chunk_id" \in DOMAIN b
    /\ v.id = VectorId(b.doc_id, b.chunk_id)

\* C30: when the keyword results and the vector results of a hybrid search
\* hold the same stored chunk, the fusion resolves both to one identity and
\* has a single entry for it, with its keyword rank and its vector rank.
C30_SameChunkOneEntry ==
    \A t \in Threads :
        HybridDone(t) =>
            \A i \in 1..Len(loc[t].bm25_results),
               j \in 1..Len(loc[t].vector_results) :
                SameStored(loc[t].bm25_results[i], loc[t].vector_results[j]) =>
                    /\ GetChunkId(loc[t].bm25_results[i])
                           = GetChunkId(loc[t].vector_results[j])
                    /\ \E p \in 1..Len(loc[t].fusion_map) :
                          /\ loc[t].fusion_map[p].bm25_rank = i
                          /\ loc[t].fusion_map[p].vector_rank = j

\* A cleanup_old_indexes call of thread t has ended.
CleanupDone(t) == pc[t] = "done" /\ call[t].op = "cleanup"

\* C29: a cleanup_old_indexes call that runs while other threads build and
\* delete indexes ends without raising, and every entry it removed was older
\* than max_age_hours at the cleanup's own time.
C29_CleanupSafe ==
    \A t \in Threads :
        CleanupDone(t) =>
            /\ ret[t].kind # "raise"
            /\ \A i \in 1..Len(loc[t].removed) :
                  loc[t].now_c - loc[t].removed[i][2] > call[t].max_age

\* A call of thread t with one of the ops has returned.
ChunkerDone(t, ops) == pc[t] = "done" /\ call[t].op \in ops

StartsWith(txt, prefix) ==
    Len(prefix) <= Len(txt) /\ SubSeq(txt, 1, Len(prefix)) = prefix

EndsWith(txt, suffix) ==
    /\ Len(suffix) <= Len(txt)
    /\ SubSeq(txt, Len(txt) - Len(suffix) + 1, Len(txt)) = suffix

\* C28: a page-wise chunk_pdf_pages call of either chunker returns one chunk
\* per page of its input, in page order: the chunk at position i (from 0) has
\* chunk_id i and the page number of the page at position i, and its text
\* ends with the text of that page.
C28_OneChunkPerPage ==
    \A t \in Threads :
        ChunkerDone(t, {"text_page_wise", "sem_page_wise"}) =>
            /\ Len(Items(t)) = Len(call[t].pages)
            /\ \A i \in 1..Len(Items(t)) :
                  /\ Items(t)[i].chunk_id = i - 1
                  /\ Items(t)[i].page_num = call[t].pages[i].page_num
                  /\ EndsWith(Items(t)[i].text, call[t].pages[i].text)

\* A page-wise call with overlap_pages = 2 over three pages, the second
\* without text, returned three chunks, the last with text of the first page
\* before its own.
C28_Witness ==
    \E t \in Threads :
        /\ ChunkerDone(t, {"text_page_wise"})
        /\ call[t].overlap_pages = 2
        /\ Len(call[t].pages) = 3
        /\ call[t].pages[2].text = << >>
        /\ Len(Items(t)) = 3
        /\ Len(Items(t)[3].text) > Len(call[t].pages[3].text)

\* The chunk_text call of thread t, of either chunker, has returned.
ChunkTextDone(t) == ChunkerDone(t, {"text_chunk_text", "sem_chunk_text"})

\* The size limit of the chunker of the call: chunk_size or max_chunk_size.
SizeLimit(t) ==
    IF call[t].op = "text_chunk_text" THEN call[t].cfg.chunk_size
    ELSE call[t].cfg.max_chunk_size

\* The last word of a text: what follows its last inner whitespace.
LastWord(txt) ==
    LET s == Strip(txt)
        sp == {i \in 1..Len(s) : IsSpace(s[i])}
    IN IF sp = {} THEN s ELSE SubSeq(s, SetMax(sp) + 1, Len(s))

\* C24: chunk_text of either chunker returns at least one chunk for a text
\* that is not blank, and its last chunk ends with the end of the text,
\* whatever min_chunk_size is.
C24_FinalChunkEmitted ==
    \A t \in Threads :
        (ChunkTextDone(t) /\ Strip(call[t].text) # << >>) =>
            /\ Items(t) # << >>
            /\ EndsWith(Strip(Items(t)[Len(Items(t))].text),
                        LastWord(call[t].text))

\* C25: every chunk that chunk_text of either chunker returns, but the last,
\* is at least min_chunk_size long.
C25_MinSizeButLast ==
    \A t \in Threads :
        ChunkTextDone(t) =>
            \A i \in 1..(Len(Items(t)) - 1) :
                Len(Items(t)[i].text) >= call[t].cfg.min_chunk_size

\* C26: when no sentence of the text is longer than the size limit, no chunk
\* that chunk_text of either chunker returns is longer than the limit.
C26_MaxSize ==
    \A t \in Threads :
        (/\ ChunkTextDone(t)
         /\ \A i \in 1..Len(SplitIntoSentences(call[t].text)) :
                Len(SplitIntoSentences(call[t].text)[i]) <= SizeLimit(t))
        => \A i \in 1..Len(Items(t)) : Len(Items(t)[i].text) <= SizeLimit(t)

\* The overlap taken from the end of a closed chunk: its last chunk_overlap
\* characters, or its last overlap_sentences sentences.
OverlapOf(t, acc) ==
    IF call[t].op = "text_chunk_text"
    THEN LastChars(acc, call[t].cfg.chunk_overlap)
    ELSE GetSentenceOverlap(acc, call[t].cfg.overlap_sentences)

\* Chunk i was closed because the next paragraph or sentence did not fit.
ClosedByOverflow(t, i) ==
    loc[t].trace[i].why \in {"paragraph_overflow", "sentence_overflow"}

\* C27: the chunk returned after a chunk that was closed because the next
\* paragraph or sentence did not fit begins with the overlap taken from the
\* end of the closed chunk (with or without the whitespace before the
\* overlap's first word).
C27_OverlapCarried ==
    \A t \in Threads :
        ChunkTextDone(t) =>
            \A i \in 1..(Len(Items(t)) - 1) :
                ClosedByOverflow(t, i) =>
                    LET ov == OverlapOf(t, loc[t].trace[i].acc)
                    IN \/ StartsWith(Items(t)[i + 1].text, ov)
                       \/ StartsWith(Items(t)[i + 1].text, Strip(ov))

====
